---- MODULE Spec2Model ----
(***************************************************************************)
(* A model of the world simulation engine of battlecode-engine:            *)
(* GameWorld (src/battlecode-engine/src/world.rs) over the maps and        *)
(* weather of src/battlecode-engine/src/map.rs.                            *)
(*                                                                         *)
(* Every method of GameWorld is a pure operator over a world record that   *)
(* returns the world it leaves behind together with its result, so that a  *)
(* method that fails half way leaves the half-mutated world, as the `?`    *)
(* operator of the source does.  The actions apply these operators to the  *)
(* variables.                                                              *)
(*                                                                         *)
(* unit.rs, location.rs, research.rs, id_generator.rs and constants.rs are *)
(* not part of the sources at hand: the operators that stand for them are  *)
(* written from the specification and from what the tests of world.rs      *)
(* assert, and are marked so in the model map.                             *)
(***************************************************************************)
EXTENDS Integers, Sequences, FiniteSets, TLC

VARIABLES round, player_to_move, visible_locs, units, unit_infos,
          units_by_loc, rocket_landings, karbonite, team_states, last,
          generated, checked

vars == <<round, player_to_move, visible_locs, units, unit_infos,
          units_by_loc, rocket_landings, karbonite, team_states, last,
          generated, checked>>

-----------------------------------------------------------------------------
(* Bounds of the model.                                                    *)

\* Units ever created by create_unit, both teams together.
MaxUnits == 2
\* EndTurn is not taken once the round counter has reached MaxRound.
MaxRound == 2

-----------------------------------------------------------------------------
(* Teams, planets, players.                                                *)

Teams == {"Red", "Blue"}
Planets == {"Earth", "Mars"}

other(team) == IF team = "Red" THEN "Blue" ELSE "Red"

Player(team, planet) == [team |-> team, planet |-> planet]

-----------------------------------------------------------------------------
(* Locations and directions.                                               *)

MapLocation(planet, x, y) == [planet |-> planet, x |-> x, y |-> y]

NoMapLocation == [planet |-> "None", x |-> 0, y |-> 0]

\* The three variants of Location.
OnMap(loc) == [kind |-> "OnMap", loc |-> loc, rocket |-> 0]
InSpace == [kind |-> "InSpace", loc |-> NoMapLocation, rocket |-> 0]
InRocket(id) == [kind |-> "InRocket", loc |-> NoMapLocation, rocket |-> id]

\* Direction::all(), in the order the blast visits the squares.
Directions == <<"North", "Northeast", "East", "Southeast",
                "South", "Southwest", "West", "Northwest">>

DirectionSet == {Directions[i] : i \in 1..Len(Directions)}

dx(dir) == CASE dir \in {"Northeast", "East", "Southeast"} -> 1
             [] dir \in {"Northwest", "West", "Southwest"} -> -1
             [] OTHER -> 0

dy(dir) == CASE dir \in {"North", "Northeast", "Northwest"} -> 1
             [] dir \in {"South", "Southeast", "Southwest"} -> -1
             [] OTHER -> 0

add(loc, dir) == MapLocation(loc.planet, loc.x + dx(dir), loc.y + dy(dir))

distance_squared_to(a, b) == (a.x - b.x) * (a.x - b.x) + (a.y - b.y) * (a.y - b.y)

\* Location::is_adjacent_to: both on a map, on one planet, one step apart.
is_adjacent_to(la, lb) ==
    /\ la.kind = "OnMap"
    /\ lb.kind = "OnMap"
    /\ la.loc.planet = lb.loc.planet
    /\ distance_squared_to(la.loc, lb.loc) \in {1, 2}

\* Location::on_planet: on a map of that planet.
on_planet(l, planet) == l.kind = "OnMap" /\ l.loc.planet = planet

-----------------------------------------------------------------------------
(* The maps (PlanetMap::test_map, with the impassable square the rocket     *)
(* test sets on Mars).                                                     *)

test_map(planet) ==
    [planet |-> planet,
     height |-> 1,
     width  |-> 3,
     origin |-> MapLocation(planet, 0, 0),
     impassable |-> IF planet = "Mars" THEN {MapLocation("Mars", 0, 0)} ELSE {}]

starting_map(planet) == test_map(planet)

on_map(map, loc) ==
    /\ map.planet = loc.planet
    /\ loc.x >= map.origin.x
    /\ loc.y >= map.origin.y
    /\ loc.x < map.origin.x + map.width
    /\ loc.y < map.origin.y + map.height

MapLocations(planet) ==
    {loc \in {MapLocation(planet, x, y) : x \in 0..3, y \in 0..3} :
        on_map(starting_map(planet), loc)}

AllMapLocations == MapLocations("Earth") \cup MapLocations("Mars")

\* PlanetMap::is_passable_terrain_at: InvalidLocation off the map.
is_passable_terrain_at(map, loc) ==
    IF on_map(map, loc)
    THEN [val |-> loc \notin map.impassable, res |-> "Ok"]
    ELSE [val |-> FALSE, res |-> "InvalidLocation"]

-----------------------------------------------------------------------------
(* Weather.                                                                *)

\* The orbit of the model.  Its period is 8, so that the sine of get_duration
\* is taken at multiples of 45 degrees; SineOfEighth holds it in thousandths.
orbit == [amplitude |-> 1, period |-> 8, center |-> 1]

SineOfEighth == <<0, 707, 1000, 707, 0, -707, -1000, -707>>

\* A cast `as i32`: toward zero.
truncate(n, d) == IF n >= 0 THEN n \div d ELSE -((-n) \div d)

\* OrbitPattern::get_duration (called duration in world.rs), for the orbit
\* of the model.
duration(r) ==
    truncate(orbit.amplitude * SineOfEighth[(r % orbit.period) + 1], 1000)
        + orbit.center

\* The asteroid pattern of the model: round -> strike.
asteroids ==
    [r \in {2, 3} |-> [karbonite |-> 20, location |-> MapLocation("Mars", 1, 0)]]

asteroid(r) == IF r \in DOMAIN asteroids THEN <<asteroids[r]>> ELSE <<>>

-----------------------------------------------------------------------------
(* Units (unit.rs, written from the specification and the tests).          *)

UnitTypes == {"Worker", "Factory", "Rocket"}

is_robot(unit_type) == unit_type \notin {"Factory", "Rocket"}

ROCKET_BLAST_DAMAGE == 50
MAX_HEAT_TO_ACT == 10
HEAT_LOSS_PER_ROUND == 10
MOVEMENT_COOLDOWN == 10
VISION_RANGE == 2
KARBONITE_STARTING == 100
RESEARCH_ROUNDS == 2
\* test_rocket_garrison boards eight robots and the ninth is refused.
ROCKET_CAPACITY == 8

\* The health a unit starts with.  test_rocket_success reads 200 off a Knight
\* after one blast; the other values are a configuration of the model.
max_health(unit_type) == IF unit_type = "Knight" THEN 250 ELSE 100

\* Unit::new
unit_new(id, team, unit_type, level, loc) ==
    [id |-> id, team |-> team, unit_type |-> unit_type, level |-> level,
     location |-> OnMap(loc), health |-> max_health(unit_type),
     movement_heat |-> 0, is_used |-> FALSE, garrison |-> <<>>]

\* Unit::is_move_ready: only robots move.
unit_is_move_ready(u) ==
    IF is_robot(u.unit_type)
    THEN [val |-> u.movement_heat < MAX_HEAT_TO_ACT, res |-> "Ok"]
    ELSE [val |-> FALSE, res |-> "InappropriateUnitType"]

\* Unit::move_to: the new square, and the heat of a move.
unit_move_to(u, loc) ==
    [u EXCEPT !.location = OnMap(loc),
              !.movement_heat = @ + MOVEMENT_COOLDOWN]

\* Unit::next_round: cooldowns tick toward ready.
unit_next_round(u) ==
    [u EXCEPT !.movement_heat =
        IF @ > HEAT_LOSS_PER_ROUND THEN @ - HEAT_LOSS_PER_ROUND ELSE 0]

\* Unit::take_damage: the unit after the damage; it is to be destroyed when its
\* health is zero or below.
unit_take_damage(u, damage) == [u EXCEPT !.health = @ - damage]

should_destroy(u) == u.health <= 0

\* Unit::is_rocket_used
is_rocket_used(u) ==
    IF u.unit_type = "Rocket"
    THEN [val |-> u.is_used, res |-> "Ok"]
    ELSE [val |-> FALSE, res |-> "InappropriateUnitType"]

\* Unit::can_garrison, of the rocket, for a boarding robot.
unit_can_garrison(rocket, robot) ==
    IF rocket.unit_type # "Rocket" \/ ~is_robot(robot.unit_type)
    THEN [val |-> FALSE, res |-> "InappropriateUnitType"]
    ELSE [val |-> /\ unit_is_move_ready(robot).val
                  /\ Len(rocket.garrison) < ROCKET_CAPACITY
                  /\ rocket.team = robot.team
                  /\ ~rocket.is_used
                  /\ is_adjacent_to(rocket.location, robot.location),
          res |-> "Ok"]

\* Unit::garrison, Unit::board_rocket
unit_garrison(rocket, id) == [rocket EXCEPT !.garrison = Append(@, id)]

unit_board_rocket(u, rocket_id) ==
    [u EXCEPT !.location = InRocket(rocket_id),
              !.movement_heat = @ + MOVEMENT_COOLDOWN]

\* Unit::can_degarrison_unit, Unit::degarrison_unit
unit_can_degarrison_unit(rocket) ==
    IF rocket.unit_type # "Rocket"
    THEN [val |-> FALSE, res |-> "InappropriateUnitType"]
    ELSE [val |-> Len(rocket.garrison) > 0, res |-> "Ok"]

unit_degarrison_unit(rocket) == [rocket EXCEPT !.garrison = Tail(@)]

\* Unit::launch_rocket, Unit::land_rocket, Unit::research
unit_launch_rocket(u) == [u EXCEPT !.location = InSpace, !.is_used = TRUE]

unit_land_rocket(u, destination) == [u EXCEPT !.location = OnMap(destination)]

unit_research(u) == [u EXCEPT !.level = @ + 1]

\* All squares within the squared distance of a square.
all_locations_within(loc, range) ==
    {MapLocation(loc.planet, loc.x + i, loc.y + j) :
        <<i, j>> \in {p \in (-range..range) \X (-range..range) :
                        p[1] * p[1] + p[2] * p[2] <= range}}

-----------------------------------------------------------------------------
(* Research and IDs (research.rs, id_generator.rs, from the specification). *)

research_new == [queue |-> <<>>, rounds_left |-> 0,
                 level |-> [t \in UnitTypes |-> 0]]

\* ResearchInfo::next_round: the state after the tick, and the branch that
\* the tick completed, if any.
research_next_round(r) ==
    IF r.queue = <<>> THEN [research |-> r, branch |-> <<>>]
    ELSE IF r.rounds_left > 1
         THEN [research |-> [r EXCEPT !.rounds_left = @ - 1], branch |-> <<>>]
         ELSE [research |-> [queue |-> Tail(r.queue),
                             rounds_left |-> IF Len(r.queue) > 1
                                             THEN RESEARCH_ROUNDS ELSE 0,
                             level |-> [r.level EXCEPT ![Head(r.queue)] = @ + 1]],
               branch |-> <<Head(r.queue)>>]

\* IDGenerator::next_id, for the n-th ID of a team: Red takes the odd
\* numbers and Blue the even ones.
next_id(team, n) == 2 * n + (IF team = "Red" THEN 1 ELSE 2)

AllIds == 1..(2 * MaxUnits)

team_info_new(team) ==
    [team |-> team, id_generator |-> 0, research |-> research_new,
     karbonite |-> KARBONITE_STARTING]

-----------------------------------------------------------------------------
(* The world record and the results of its methods.                        *)

RedEarth == Player("Red", "Earth")

\* GameWorld::new: round 1, Red on Earth to move, no unit.
new_world ==
    [round |-> 1,
     player_to_move |-> RedEarth,
     visible_locs |-> {},
     units |-> <<>>,
     unit_infos |-> <<>>,
     units_by_loc |-> <<>>,
     rocket_landings |-> <<>>,
     karbonite |-> [p \in Planets |-> [l \in MapLocations(p) |-> 0]],
     team_states |-> [t \in Teams |-> team_info_new(t)]]

\* A method's outcome: the world it leaves and Ok or the error it returned.
Ok(w) == [w |-> w, res |-> "Ok"]
Err(w, e) == [w |-> w, res |-> e]

\* The `?` of the source: go on only from an Ok.
Then(r, F(_)) == IF r.res = "Ok" THEN F(r.w) ELSE r

\* Maps as functions: insert and remove a key.
insert(f, k, v) == [x \in DOMAIN f \cup {k} |-> IF x = k THEN v ELSE f[x]]
remove(f, k) == [x \in DOMAIN f \ {k} |-> f[x]]

has_unit(w, id) == id \in DOMAIN w.units

-----------------------------------------------------------------------------
(* Unit creation and destruction.                                          *)

\* GameWorld::place_unit: the unit is on a map (it panics otherwise).
place_unit(w, id) ==
    [w EXCEPT !.units_by_loc = insert(@, w.units[id].location.loc, id)]

\* GameWorld::remove_unit: the unit is on a map (it panics otherwise).
remove_unit(w, id) ==
    [w EXCEPT !.units_by_loc = remove(@, w.units[id].location.loc)]

\* GameWorld::create_unit
\* A creation that reads the team's generator and leaves it where it was.
create_unit_same_id(w, team, location, unit_type) ==
    LET info == w.team_states[team]
        id == next_id(team, info.id_generator)
        level == info.research.level[unit_type]
        unit == unit_new(id, team, unit_type, level, location)
        w1 == [w EXCEPT !.units = insert(@, id, unit)]
    IN  Ok(place_unit(w1, id))

create_unit(w, team, location, unit_type) ==
    LET info == w.team_states[team]
        id == next_id(team, info.id_generator)
        level == info.research.level[unit_type]
        unit == unit_new(id, team, unit_type, level, location)
        w1 == [w EXCEPT !.team_states[team].id_generator = @ + 1,
                        !.units = insert(@, id, unit)]
    IN  Ok(place_unit(w1, id))

\* GameWorld::delete_unit
delete_unit(w, id) == [w EXCEPT !.units = remove(@, id)]

RECURSIVE destroy_unit(_, _)
RECURSIVE destroy_units(_, _, _)

\* The loop of destroy_unit over the garrison, from its i-th unit on.
destroy_units(w, ids, i) ==
    IF i > Len(ids) THEN Ok(w)
    ELSE Then(destroy_unit(w, ids[i]), LAMBDA v : destroy_units(v, ids, i + 1))

\* GameWorld::destroy_unit
destroy_unit(w, id) ==
    IF ~has_unit(w, id) THEN Err(w, "NoSuchUnit")
    ELSE LET u == w.units[id]
             w1 == IF u.location.kind = "OnMap"
                   THEN [w EXCEPT !.units_by_loc = remove(@, u.location.loc)]
                   ELSE w
         IN  IF u.unit_type = "Rocket"
             THEN Then(destroy_units(w1, u.garrison, 1),
                       LAMBDA v : Ok(delete_unit(v, id)))
             ELSE Ok(delete_unit(w1, id))

-----------------------------------------------------------------------------
(* Movement.                                                               *)

\* GameWorld::is_occupiable
is_occupiable(w, location) ==
    LET passable == is_passable_terrain_at(starting_map(location.planet), location)
    IN  IF passable.res # "Ok" THEN passable
        ELSE [val |-> passable.val /\ location \notin DOMAIN w.units_by_loc,
              res |-> "Ok"]

\* A can_move that leaves the movement heat out of account, as its doc
\* comment has it.
can_move_at_any_heat(w, robot_id, direction) ==
    IF ~has_unit(w, robot_id) THEN [val |-> FALSE, res |-> "NoSuchUnit"]
    ELSE LET unit == w.units[robot_id]
         IN  IF unit.location.kind = "OnMap"
             THEN IF ~is_robot(unit.unit_type)
                  THEN [val |-> FALSE, res |-> "InappropriateUnitType"]
                  ELSE is_occupiable(w, add(unit.location.loc, direction))
             ELSE [val |-> FALSE, res |-> "Ok"]

\* GameWorld::can_move
can_move(w, robot_id, direction) ==
    IF ~has_unit(w, robot_id) THEN [val |-> FALSE, res |-> "NoSuchUnit"]
    ELSE LET unit == w.units[robot_id]
         IN  IF unit.location.kind = "OnMap"
             THEN LET ready == unit_is_move_ready(unit)
                  IN  IF ready.res # "Ok" THEN ready
                      ELSE IF ~ready.val THEN [val |-> FALSE, res |-> "Ok"]
                      ELSE is_occupiable(w, add(unit.location.loc, direction))
             ELSE [val |-> FALSE, res |-> "Ok"]

\* GameWorld::move_robot
move_robot(w, robot_id, direction) ==
    LET can == can_move(w, robot_id, direction)
    IN  IF can.res # "Ok" THEN Err(w, can.res)
        ELSE IF ~can.val THEN Err(w, "InvalidAction")
        ELSE LET dest == add(w.units[robot_id].location.loc, direction)
                 w1 == remove_unit(w, robot_id)
                 w2 == [w1 EXCEPT !.units[robot_id] = unit_move_to(@, dest)]
             IN  Ok(place_unit(w2, robot_id))

-----------------------------------------------------------------------------
(* Damage.                                                                 *)

\* GameWorld::damage_location
damage_location(w, location, damage) ==
    IF location \notin DOMAIN w.units_by_loc THEN Ok(w)
    ELSE LET id == w.units_by_loc[location]
         IN  IF ~has_unit(w, id) THEN Err(w, "NoSuchUnit")
             ELSE LET w1 == [w EXCEPT !.units[id] = unit_take_damage(@, damage)]
                  IN  IF should_destroy(w1.units[id])
                      THEN destroy_unit(w1, id)
                      ELSE Ok(w1)

RECURSIVE blast(_, _, _)

\* The loop over Direction::all() of launch_rocket and land_rocket, from the
\* i-th direction on.
blast(w, location, i) ==
    IF i > Len(Directions) THEN Ok(w)
    ELSE Then(damage_location(w, add(location, Directions[i]), ROCKET_BLAST_DAMAGE),
              LAMBDA v : blast(v, location, i + 1))

-----------------------------------------------------------------------------
(* Rockets.                                                                *)

\* GameWorld::can_garrison_rocket
can_garrison_rocket(w, rocket_id, robot_id) ==
    IF ~has_unit(w, robot_id) \/ ~has_unit(w, rocket_id)
    THEN [val |-> FALSE, res |-> "NoSuchUnit"]
    ELSE unit_can_garrison(w.units[rocket_id], w.units[robot_id])

\* A garrison_rocket that boards the robot whatever can_garrison_rocket
\* answers, as long as it answers.
garrison_rocket_unchecked(w, rocket_id, robot_id) ==
    LET can == can_garrison_rocket(w, rocket_id, robot_id)
    IN  IF can.res # "Ok" THEN Err(w, can.res)
        ELSE LET w1 == remove_unit(w, robot_id)
             IN  Ok([w1 EXCEPT
                       !.units[rocket_id] = unit_garrison(@, robot_id),
                       !.units[robot_id] = unit_board_rocket(@, rocket_id)])

\* GameWorld::garrison_rocket
\* A boarding that leaves the entry of the robot in the location index.
garrison_rocket_indexed(w, rocket_id, robot_id) ==
    LET can == can_garrison_rocket(w, rocket_id, robot_id)
    IN  IF can.res # "Ok" THEN Err(w, can.res)
        ELSE IF ~can.val THEN Err(w, "InvalidAction")
        ELSE Ok([w EXCEPT
                   !.units[rocket_id] = unit_garrison(@, robot_id),
                   !.units[robot_id] = unit_board_rocket(@, rocket_id)])

garrison_rocket(w, rocket_id, robot_id) ==
    LET can == can_garrison_rocket(w, rocket_id, robot_id)
    IN  IF can.res # "Ok" THEN Err(w, can.res)
        ELSE IF ~can.val THEN Err(w, "InvalidAction")
        ELSE LET w1 == remove_unit(w, robot_id)
             IN  Ok([w1 EXCEPT
                       !.units[rocket_id] = unit_garrison(@, robot_id),
                       !.units[robot_id] = unit_board_rocket(@, rocket_id)])

\* GameWorld::can_degarrison_rocket
can_degarrison_rocket(w, rocket_id, direction) ==
    IF ~has_unit(w, rocket_id) THEN [val |-> FALSE, res |-> "NoSuchUnit"]
    ELSE LET rocket == w.units[rocket_id]
             can == unit_can_degarrison_unit(rocket)
         IN  IF can.res # "Ok" \/ ~can.val THEN can
             ELSE IF ~has_unit(w, rocket.garrison[1])
                  THEN [val |-> FALSE, res |-> "NoSuchUnit"]
             ELSE IF rocket.location.kind # "OnMap"
                  THEN [val |-> FALSE, res |-> "InvalidLocation"]
             ELSE LET robot == w.units[rocket.garrison[1]]
                      occ == is_occupiable(w, add(rocket.location.loc, direction))
                  IN  IF occ.res # "Ok" \/ ~occ.val THEN occ
                      ELSE unit_is_move_ready(robot)

\* A degarrison_rocket that takes the robot that boarded last, not the one
\* can_degarrison_rocket looked at.
degarrison_rocket_last(w, rocket_id, direction) ==
    LET can == can_degarrison_rocket(w, rocket_id, direction)
    IN  IF can.res # "Ok" THEN Err(w, can.res)
        ELSE IF ~can.val THEN Err(w, "InvalidAction")
        ELSE LET rocket == w.units[rocket_id]
                 robot_id == rocket.garrison[Len(rocket.garrison)]
                 robot_loc == add(rocket.location.loc, direction)
                 w1 == [w EXCEPT
                          !.units[rocket_id].garrison =
                              SubSeq(@, 1, Len(@) - 1),
                          !.units[robot_id] = unit_move_to(@, robot_loc)]
             IN  Ok(place_unit(w1, robot_id))

\* GameWorld::degarrison_rocket
degarrison_rocket(w, rocket_id, direction) ==
    LET can == can_degarrison_rocket(w, rocket_id, direction)
    IN  IF can.res # "Ok" THEN Err(w, can.res)
        ELSE IF ~can.val THEN Err(w, "InvalidAction")
        ELSE LET rocket == w.units[rocket_id]
                 robot_id == rocket.garrison[1]
                 robot_loc == add(rocket.location.loc, direction)
                 w1 == [w EXCEPT
                          !.units[rocket_id] = unit_degarrison_unit(@),
                          !.units[robot_id] = unit_move_to(@, robot_loc)]
             IN  Ok(place_unit(w1, robot_id))

\* GameWorld::can_launch_rocket
can_launch_rocket(w, rocket_id, destination) ==
    IF ~has_unit(w, rocket_id) THEN [val |-> FALSE, res |-> "NoSuchUnit"]
    ELSE LET used == is_rocket_used(w.units[rocket_id])
             map == starting_map(destination.planet)
         IN  IF used.res # "Ok" THEN used
             ELSE IF used.val THEN [val |-> FALSE, res |-> "Ok"]
             ELSE IF ~on_map(map, destination) THEN [val |-> FALSE, res |-> "Ok"]
             ELSE is_passable_terrain_at(map, destination)

\* What launch_rocket adds to the landings of a round.
schedule_landing(landings, landing_round, rocket_id, destination) ==
    IF landing_round \in DOMAIN landings
    THEN [landings EXCEPT ![landing_round] = Append(@, <<rocket_id, destination>>)]
    ELSE insert(landings, landing_round, <<(<<rocket_id, destination>>)>>)

\* The state launch_rocket leaves before its blast: the rocket used and in
\* space, its landing scheduled.
take_off(w, rocket_id, destination) ==
    [w EXCEPT
       !.units[rocket_id] = unit_launch_rocket(@),
       !.rocket_landings = schedule_landing(@, w.round + duration(w.round),
                                            rocket_id, destination)]

\* GameWorld::launch_rocket
launch_rocket(w, rocket_id, destination) ==
    LET can == can_launch_rocket(w, rocket_id, destination)
    IN  IF can.res # "Ok" THEN Err(w, can.res)
        ELSE IF ~can.val THEN Err(w, "InvalidAction")
        ELSE IF w.units[rocket_id].location.kind # "OnMap"
             THEN Err(w, "InvalidLocation")
        ELSE blast(take_off(w, rocket_id, destination),
                   w.units[rocket_id].location.loc, 1)

\* A land_rocket that forgets should_destroy_rocket: whatever holds the
\* destination is destroyed and the rocket is left as it is.
touch_down_sparing(w, id, destination) ==
    IF destination \in DOMAIN w.units_by_loc
    THEN destroy_unit(w, w.units_by_loc[destination])
    ELSE IF ~has_unit(w, id) THEN Err(w, "NoSuchUnit")
         ELSE Ok(place_unit(
                   [w EXCEPT !.units[id] = unit_land_rocket(@, destination)], id))

\* The first half of land_rocket: the destination is taken (its occupant is
\* destroyed, and the rocket too when the occupant is a rocket or a factory)
\* or free (the rocket is placed).
touch_down(w, id, destination) ==
    IF destination \in DOMAIN w.units_by_loc
    THEN LET victim_id == w.units_by_loc[destination]
         IN  IF ~has_unit(w, victim_id) THEN Err(w, "NoSuchUnit")
             ELSE IF w.units[victim_id].unit_type \in {"Rocket", "Factory"}
                  THEN Then(destroy_unit(w, id),
                            LAMBDA v : destroy_unit(v, victim_id))
                  ELSE destroy_unit(w, victim_id)
    ELSE IF ~has_unit(w, id) THEN Err(w, "NoSuchUnit")
         ELSE Ok(place_unit(
                   [w EXCEPT !.units[id] = unit_land_rocket(@, destination)], id))

\* GameWorld::land_rocket
land_rocket(w, id, destination) ==
    Then(touch_down(w, id, destination), LAMBDA v : blast(v, destination, 1))

RECURSIVE land_rockets(_, _, _)

\* The loop of process_rockets, from the i-th landing on.
land_rockets(w, landings, i) ==
    IF i > Len(landings) THEN Ok(w)
    ELSE Then(land_rocket(w, landings[i][1], landings[i][2]),
              LAMBDA v : land_rockets(v, landings, i + 1))

\* The landings of a round visited from the last launched to the first.
landings_reversed(w, r) ==
    IF r \in DOMAIN w.rocket_landings
    THEN [i \in 1..Len(w.rocket_landings[r]) |->
            w.rocket_landings[r][Len(w.rocket_landings[r]) + 1 - i]]
    ELSE <<>>

landings_of(w, r) ==
    IF r \in DOMAIN w.rocket_landings THEN w.rocket_landings[r] ELSE <<>>

\* GameWorld::process_rockets
process_rockets(w) == land_rockets(w, landings_of(w, w.round), 1)

-----------------------------------------------------------------------------
(* Asteroids and research.                                                 *)

\* GameWorld::process_asteroids
process_asteroids(w) ==
    IF asteroid(w.round) # <<>>
    THEN LET strike == asteroid(w.round)[1]
         IN  [w EXCEPT !.karbonite[strike.location.planet][strike.location] =
                           @ + strike.karbonite]
    ELSE w

\* GameWorld::process_research: a completed branch raises every unit of the
\* branch's type.
process_research(w, team) ==
    LET next == research_next_round(w.team_states[team].research)
        w1 == [w EXCEPT !.team_states[team].research = next.research]
    IN  IF next.branch # <<>>
        THEN Ok([w1 EXCEPT !.units =
                    [id \in DOMAIN w1.units |->
                        IF w1.units[id].unit_type = next.branch[1]
                        THEN unit_research(w1.units[id])
                        ELSE w1.units[id]]])
        ELSE Ok(w1)

-----------------------------------------------------------------------------
(* The game loop.                                                          *)

\* The head of next_round: the round counter and every unit's cooldowns.
begin_round(w) ==
    [w EXCEPT !.round = @ + 1,
              !.units = [id \in DOMAIN w.units |-> unit_next_round(w.units[id])]]

\* GameWorld::queue_research: the branch joins the back of the queue of the
\* team to move; the first branch of a queue starts its countdown.
research_add_to_queue(r, branch) ==
    [r EXCEPT !.queue = Append(@, branch),
              !.rounds_left = IF r.queue = <<>> THEN RESEARCH_ROUNDS ELSE @]

queue_research(w, branch) ==
    Ok([w EXCEPT !.team_states[w.player_to_move.team].research =
                    research_add_to_queue(@, branch)])

\* A round advance that resolves the landings before it increments the
\* round: the rockets land one round late.
next_round_lands_first(w) ==
    Then(process_rockets(w),
         LAMBDA v : Then(process_research(process_asteroids(begin_round(v)), "Red"),
                         LAMBDA u : process_research(u, "Blue")))

\* GameWorld::next_round
next_round(w) ==
    Then(process_rockets(begin_round(w)),
         LAMBDA v : Then(process_research(process_asteroids(v), "Red"),
                         LAMBDA u : process_research(u, "Blue")))

next_player(player) ==
    CASE player = Player("Red", "Earth")  -> Player("Blue", "Earth")
      [] player = Player("Blue", "Earth") -> Player("Red", "Mars")
      [] player = Player("Red", "Mars")   -> Player("Blue", "Mars")
      [] player = Player("Blue", "Mars")  -> Player("Red", "Earth")

\* A next_turn that ends the round after each turn of Blue, on Earth and on
\* Mars.
next_turn_of_blue(w) ==
    IF w.player_to_move.team = "Blue"
    THEN Then(next_round(w),
              LAMBDA v : Ok([v EXCEPT !.player_to_move = next_player(w.player_to_move)]))
    ELSE Ok([w EXCEPT !.player_to_move = next_player(@)])

\* GameWorld::next_turn: the last player's turn ends the round; when
\* next_round fails the player to move is not assigned.
next_turn(w) ==
    IF w.player_to_move = Player("Blue", "Mars")
    THEN Then(next_round(w),
              LAMBDA v : Ok([v EXCEPT !.player_to_move = next_player(w.player_to_move)]))
    ELSE Ok([w EXCEPT !.player_to_move = next_player(@)])

\* GameWorld::apply, for a delta [kind, id, direction].
apply(w, delta) ==
    CASE delta.kind = "EndTurn" -> next_turn(w)
      [] delta.kind = "Move"    -> move_robot(w, delta.id, delta.direction)
      [] OTHER                  -> Ok(w)

-----------------------------------------------------------------------------
(* The visibility filter.                                                  *)

Range(seq) == {seq[i] : i \in 1..Len(seq)}

\* A selection that forgets the team: every unit on the planet of the player
\* to move, or in space.
own_units_of_any_team(w, team, planet) ==
    {id \in DOMAIN w.units :
        \/ on_planet(w.units[id].location, planet)
        \/ w.units[id].location = InSpace}

\* The units filter() selects first: the team's units on the planet of the
\* player to move, or in space.
own_units(w, team, planet) ==
    {id \in DOMAIN w.units :
        /\ w.units[id].team = team
        /\ \/ on_planet(w.units[id].location, planet)
           \/ w.units[id].location = InSpace}

\* The squares on the map within the vision range of one of these units.
visible_locations(w, ids, map) ==
    UNION {{loc \in all_locations_within(w.units[id].location.loc, VISION_RANGE) :
                on_map(map, loc)} :
           id \in {i \in ids : w.units[i].location # InSpace}}

\* The units garrisoned in the rockets among these units.
units_in_rockets(w, ids) ==
    UNION {Range(w.units[id].garrison) :
           id \in {i \in ids : w.units[i].unit_type = "Rocket"}}

\* The landings of each round that are the team's, the rounds left with none
\* dropped.
filter_landings(w, team) ==
    LET mine(r) == SelectSeq(w.rocket_landings[r],
                             LAMBDA landing : w.units[landing[1]].team = team)
    IN  [r \in {q \in DOMAIN w.rocket_landings : Len(mine(q)) > 0} |-> mine(r)]

\* GameWorld::filter.  It panics ("unit does not exist", "unit must exist")
\* when a garrisoned unit or a rocket of a landing is not in the unit map.
filter(w) ==
    LET team == w.player_to_move.team
        planet == w.player_to_move.planet
        map == starting_map(planet)
        selected == own_units(w, team, planet)
        visible == visible_locations(w, selected, map)
        cargo == units_in_rockets(w, selected)
        kept == selected \cup cargo
        on_the_map == {id \in kept : w.units[id].location.kind = "OnMap"}
    IN  IF \/ \E id \in cargo : ~has_unit(w, id)
           \/ \E r \in DOMAIN w.rocket_landings :
                 \E landing \in Range(w.rocket_landings[r]) : ~has_unit(w, landing[1])
        THEN Err(w, "Panic")
        ELSE Ok([w EXCEPT
                   !.visible_locs = visible,
                   !.units = [id \in kept |-> w.units[id]],
                   !.unit_infos =
                       [id \in {i \in DOMAIN w.unit_infos :
                                   /\ w.unit_infos[i].location.kind = "OnMap"
                                   /\ w.unit_infos[i].location.loc \in visible}
                           |-> w.unit_infos[id]],
                   !.units_by_loc =
                       [loc \in {w.units[id].location.loc : id \in on_the_map} |->
                           CHOOSE id \in on_the_map : w.units[id].location.loc = loc],
                   !.rocket_landings = filter_landings(w, team),
                   !.team_states = [t \in {team} |-> w.team_states[team]]])

-----------------------------------------------------------------------------
(* The state machine.                                                      *)

\* The world the variables hold.
World ==
    [round |-> round,
     player_to_move |-> player_to_move,
     visible_locs |-> visible_locs,
     units |-> units,
     unit_infos |-> unit_infos,
     units_by_loc |-> units_by_loc,
     rocket_landings |-> rocket_landings,
     karbonite |-> karbonite,
     team_states |-> team_states]

SetWorld(w) ==
    /\ round' = w.round
    /\ player_to_move' = w.player_to_move
    /\ visible_locs' = w.visible_locs
    /\ units' = w.units
    /\ unit_infos' = w.unit_infos
    /\ units_by_loc' = w.units_by_loc
    /\ rocket_landings' = w.rocket_landings
    /\ karbonite' = w.karbonite
    /\ team_states' = w.team_states

NoId == 0

\* The landings of the last round advance, for the record of the last call.
RECURSIVE landed_prefix(_, _, _)

\* The loop of process_rockets after its first n landings.
landed_prefix(w, landings, n) ==
    IF n = 0 THEN Ok(w)
    ELSE Then(landed_prefix(w, landings, n - 1),
              LAMBDA v : land_rocket(v, landings[n][1], landings[n][2]))

\* What a landing finds on its destination.
found_at(w, destination) ==
    IF destination \notin DOMAIN w.units_by_loc THEN "free"
    ELSE LET victim_id == w.units_by_loc[destination]
         IN  IF ~has_unit(w, victim_id) THEN "missing"
             ELSE IF w.units[victim_id].location # OnMap(destination) THEN "stale"
             ELSE IF is_robot(w.units[victim_id].unit_type) THEN "robot"
             ELSE "structure"

\* The landings the round advance out of w goes through: for each, what it
\* found and how it ended.
landing_log(w) ==
    LET w0 == begin_round(w)
        landings == landings_of(w0, w0.round)
    IN  [n \in 1..Len(landings) |->
            LET before == landed_prefix(w0, landings, n - 1)
                id == landings[n][1]
                destination == landings[n][2]
            IN  IF before.res # "Ok"
                THEN [id |-> id, destination |-> destination, rocket |-> FALSE,
                      victim |-> NoId, found |-> "skipped", res |-> "skipped"]
                ELSE [id |-> id, destination |-> destination,
                      rocket |-> has_unit(before.w, id),
                      victim |-> IF destination \in DOMAIN before.w.units_by_loc
                                 THEN before.w.units_by_loc[destination] ELSE NoId,
                      found |-> found_at(before.w, destination),
                      res |-> land_rocket(before.w, id, destination).res]]

\* The record of the last call that changed the world: the method, the unit
\* it acted on, its result, and the landings of a round advance.  A call that
\* leaves the world as it was leaves the record too.
Call(op, id, res, landed) ==
    [op |-> op, id |-> id, res |-> res, landed |-> landed]

Returned(w, r, call) ==
    IF r.w # w
    THEN SetWorld(r.w) /\ last' = call /\ UNCHANGED <<generated, checked>>
    ELSE UNCHANGED vars

\* A run of AsteroidPattern::random: the round its loop has reached, the
\* strikes it has inserted, whether it has left the loop, and the result of
\* validate() on the pattern once it was asked.
not_generated == [round |-> 0, pattern |-> <<>>, done |-> FALSE, valid |-> "None"]

\* A value handed to a function of map.rs, and what the function returned,
\* once it has.
not_checked == [input |-> <<>>, result |-> <<>>]

Init ==
    /\ round = new_world.round
    /\ player_to_move = new_world.player_to_move
    /\ visible_locs = new_world.visible_locs
    /\ units = new_world.units
    /\ unit_infos = new_world.unit_infos
    /\ units_by_loc = new_world.units_by_loc
    /\ rocket_landings = new_world.rocket_landings
    /\ karbonite = new_world.karbonite
    /\ team_states = new_world.team_states
    /\ last = Call("new", NoId, "Ok", <<>>)
    /\ generated = not_generated
    /\ checked = not_checked

created == team_states["Red"].id_generator + team_states["Blue"].id_generator

\* create_unit, on a square that is_occupiable (what place_unit assumes).
CreateUnit(team, location, unit_type) ==
    /\ created < MaxUnits
    /\ is_occupiable(World, location).res = "Ok"
    /\ is_occupiable(World, location).val
    /\ LET r == create_unit(World, team, location, unit_type)
       IN  Returned(World, r,
                    Call("create_unit", next_id(team, team_states[team].id_generator),
                         r.res, <<>>))

MoveRobot(robot_id, direction) ==
    LET r == move_robot(World, robot_id, direction)
    IN  Returned(World, r, Call("move_robot", robot_id, r.res, <<>>))

GarrisonRocket(rocket_id, robot_id) ==
    LET r == garrison_rocket(World, rocket_id, robot_id)
    IN  Returned(World, r, Call("garrison_rocket", robot_id, r.res, <<>>))

DegarrisonRocket(rocket_id, direction) ==
    LET r == degarrison_rocket(World, rocket_id, direction)
    IN  Returned(World, r, Call("degarrison_rocket", rocket_id, r.res, <<>>))

\* The destinations tried: every square of both maps and one off the map.
Destinations == AllMapLocations \cup {MapLocation("Mars", -1, 0)}

LaunchRocket(rocket_id, destination) ==
    LET r == launch_rocket(World, rocket_id, destination)
    IN  Returned(World, r, Call("launch_rocket", rocket_id, r.res, <<>>))

NextTurn ==
    /\ player_to_move = Player("Blue", "Mars") => round < MaxRound
    /\ LET r == next_turn(World)
       IN  Returned(World, r,
                    Call("next_turn", NoId, r.res,
                         IF player_to_move = Player("Blue", "Mars")
                         THEN landing_log(World) ELSE <<>>))

\* apply, of a delta that is neither EndTurn nor Move.
ApplyOther ==
    LET r == apply(World, [kind |-> "Other", id |-> NoId, direction |-> "North"])
    IN  Returned(World, r, Call("apply", NoId, r.res, <<>>))

\* The directions tried: on these maps every direction but East and West
\* leaves the map, as North does.
DirectionsTried == {"East", "West", "North"}

\* The unit IDs tried: those of the units there are, and one of no unit.
Ids == DOMAIN units \cup {NoId}

Next ==
    \/ \E team \in Teams, location \in AllMapLocations, unit_type \in UnitTypes :
          CreateUnit(team, location, unit_type)
    \/ \E id \in Ids, direction \in DirectionsTried : MoveRobot(id, direction)
    \/ \E rocket_id \in Ids, robot_id \in Ids : GarrisonRocket(rocket_id, robot_id)
    \/ \E id \in Ids, direction \in DirectionsTried : DegarrisonRocket(id, direction)
    \/ \E id \in Ids, destination \in Destinations : LaunchRocket(id, destination)
    \/ NextTurn
    \/ ApplyOther

Spec == Init /\ [][Next]_vars

-----------------------------------------------------------------------------
(* The claims.                                                             *)

BlueMars == Player("Blue", "Mars")

\* The location index of a world is consistent: each unit on a map is the
\* entry of its square, and each entry names a unit that is on its square.
IndexConsistent(w) ==
    /\ \A id \in DOMAIN w.units :
          w.units[id].location.kind = "OnMap" =>
             /\ w.units[id].location.loc \in DOMAIN w.units_by_loc
             /\ w.units_by_loc[w.units[id].location.loc] = id
    /\ \A loc \in DOMAIN w.units_by_loc :
          /\ has_unit(w, w.units_by_loc[loc])
          /\ w.units[w.units_by_loc[loc]].location = OnMap(loc)

\* C1: after every successful action and every round advance the location
\* index is consistent: every unit on a map is the index entry of its square,
\* no two units share a square, and every entry names a unit of the unit map
\* that is on that square.
C1_IndexConsistent == last.res = "Ok" => IndexConsistent(World)

RECURSIVE end_turns(_, _)

\* n EndTurn actions in a row, whatever each returns.
end_turns(w, n) == IF n = 0 THEN w ELSE next_turn(end_turns(w, n - 1)).w

\* C2: from any state where Red on Earth is to move, four EndTurn actions in
\* a row lead back to Red on Earth with the round counter one higher.
C2_FourEndTurns ==
    player_to_move = RedEarth =>
        /\ end_turns(World, 4).player_to_move = RedEarth
        /\ end_turns(World, 4).round = round + 1

\* C3: the player to move starts at Red on Earth and changes only in the
\* order Red/Earth, Blue/Earth, Red/Mars, Blue/Mars; the round counter
\* changes only, and by one, on the step from Blue/Mars back to Red/Earth, so
\* that each player has had its turn exactly once per round.
C3_TurnOrder ==
    /\ player_to_move = RedEarth /\ round = 1
    /\ [][/\ player_to_move' # player_to_move =>
                /\ player_to_move' = next_player(player_to_move)
                /\ round' = IF player_to_move = BlueMars THEN round + 1 ELSE round
          /\ round' # round =>
                /\ player_to_move = BlueMars
                /\ player_to_move' = RedEarth
                /\ round' = round + 1]_vars

\* C4: for every reachable world, filter(filter(w)) completes and equals
\* filter(w) in every field.
C4_FilterIdempotent ==
    /\ filter(World).res = "Ok"
    /\ filter(filter(World).w).res = "Ok"
    /\ filter(filter(World).w).w = filter(World).w

\* A method left the world as it was, or returned Ok.
Atomic(w, r) == r.res # "Ok" => r.w = w

\* C5: whenever move_robot, garrison_rocket, degarrison_rocket,
\* launch_rocket, next_turn or apply returns an error, the world is as it was
\* before the call.
C5_ErrorLeavesWorld ==
    /\ \A id \in Ids, direction \in DirectionSet :
          /\ Atomic(World, move_robot(World, id, direction))
          /\ Atomic(World, degarrison_rocket(World, id, direction))
          /\ Atomic(World, apply(World, [kind |-> "Move", id |-> id,
                                         direction |-> direction]))
    /\ \A rocket_id \in Ids, robot_id \in Ids :
          Atomic(World, garrison_rocket(World, rocket_id, robot_id))
    /\ \A id \in Ids, destination \in Destinations :
          Atomic(World, launch_rocket(World, id, destination))
    /\ Atomic(World, next_turn(World))
    /\ Atomic(World, apply(World, [kind |-> "EndTurn", id |-> NoId,
                                   direction |-> "North"]))

\* A method refused a call with TeamNotAllowed and changed nothing.
Refused(w, r) == r.res = "TeamNotAllowed" /\ r.w = w

\* C6: move_robot, garrison_rocket, degarrison_rocket and launch_rocket on a
\* unit that is not of the team to move are refused with TeamNotAllowed and
\* change nothing.
C6_TeamNotAllowed ==
    \A id \in DOMAIN units :
        units[id].team # player_to_move.team =>
            /\ \A direction \in DirectionSet :
                  /\ Refused(World, move_robot(World, id, direction))
                  /\ Refused(World, degarrison_rocket(World, id, direction))
            /\ \A robot_id \in DOMAIN units :
                  Refused(World, garrison_rocket(World, id, robot_id))
            /\ \A destination \in Destinations :
                  Refused(World, launch_rocket(World, id, destination))

\* The landings that the round advance out of w comes to: each with the
\* world land_rocket is called in.
Landings(w) ==
    LET w0 == begin_round(w)
        landings == landings_of(w0, w0.round)
    IN  {c \in {[before |-> landed_prefix(w0, landings, n - 1),
                 id |-> landings[n][1],
                 destination |-> landings[n][2]] : n \in 1..Len(landings)} :
            c.before.res = "Ok"}

\* The landings of the round advance that the next EndTurn of Blue on Mars
\* runs, of a rocket that is in the unit map.
RocketLandings ==
    IF player_to_move = BlueMars
    THEN {c \in Landings(World) : has_unit(c.before.w, c.id)}
    ELSE {}

\* C7: a rocket that lands on a square held by a robot destroys the robot
\* and lands: after land_rocket the robot is gone, the rocket exists, is on
\* the destination, and is the index entry of the destination.
C7_LandsOnRobot ==
    \A c \in RocketLandings :
        found_at(c.before.w, c.destination) = "robot" =>
            LET after == land_rocket(c.before.w, c.id, c.destination).w
            IN  /\ ~has_unit(after, c.before.w.units_by_loc[c.destination])
                /\ has_unit(after, c.id)
                /\ after.units[c.id].location = OnMap(c.destination)
                /\ c.destination \in DOMAIN after.units_by_loc
                /\ after.units_by_loc[c.destination] = c.id

\* C8: a rocket that lands on a square held by a factory or a rocket is
\* destroyed with it: after land_rocket neither is in the unit map and the
\* destination has no entry in the location index.
C8_LandsOnStructure ==
    \A c \in RocketLandings :
        found_at(c.before.w, c.destination) = "structure" =>
            LET after == land_rocket(c.before.w, c.id, c.destination).w
            IN  /\ ~has_unit(after, c.before.w.units_by_loc[c.destination])
                /\ ~has_unit(after, c.id)
                /\ c.destination \notin DOMAIN after.units_by_loc

\* A round advance has run in which a rocket came down on a factory or a
\* rocket, and both are gone.
C8_Witness ==
    /\ last.op = "next_turn"
    /\ \E n \in 1..Len(last.landed) :
          /\ last.landed[n].rocket
          /\ last.landed[n].found = "structure"
          /\ last.landed[n].id \notin DOMAIN units
          /\ last.landed[n].victim \notin DOMAIN units
          /\ last.landed[n].destination \notin DOMAIN units_by_loc

\* A launch that succeeds in the world of the variables: the rocket, where
\* it stood, and the world after.
Launches ==
    {c \in {[id |-> id, destination |-> destination,
             r |-> launch_rocket(World, id, destination)] :
                id \in DOMAIN units, destination \in Destinations} :
        c.r.res = "Ok"}

\* C9: after a successful launch_rocket the rocket is used and in space and
\* the square it took off from has no index entry: it is occupiable again if
\* its terrain is passable.
C9_LaunchLeavesIndex ==
    \A c \in Launches :
        LET takeoff == units[c.id].location.loc
            after == c.r.w
        IN  /\ after.units[c.id].is_used
            /\ after.units[c.id].location = InSpace
            /\ takeoff \notin DOMAIN after.units_by_loc
            /\ is_passable_terrain_at(starting_map(takeoff.planet), takeoff).val
                  => is_occupiable(after, takeoff).val

\* C10: a successful launch_rocket takes ROCKET_BLAST_DAMAGE once from the
\* unit on each square next to the takeoff square, destroying it at zero
\* health or below, and changes the health of no other unit.
C10_LaunchBlast ==
    \A c \in Launches :
        \A id \in DOMAIN units \ {c.id} :
            IF is_adjacent_to(units[id].location, units[c.id].location)
            THEN IF units[id].health - ROCKET_BLAST_DAMAGE <= 0
                 THEN ~has_unit(c.r.w, id)
                 ELSE /\ has_unit(c.r.w, id)
                      /\ c.r.w.units[id].health = units[id].health - ROCKET_BLAST_DAMAGE
            ELSE has_unit(c.r.w, id) => c.r.w.units[id].health = units[id].health

\* The landings the world has scheduled: the round, the rocket, the square.
Scheduled ==
    UNION {{[round |-> q, id |-> rocket_landings[q][n][1],
             destination |-> rocket_landings[q][n][2]] :
                n \in 1..Len(rocket_landings[q])} :
           q \in DOMAIN rocket_landings}

\* C11: a rocket launched in round r is scheduled to land in round
\* r + duration(r) on its destination; while the round is below that it
\* exists and is in space; its landing is resolved in the round advance to
\* that round, none of the landings of a round being skipped, and a unit
\* leaves space in no other step.
C11_LandingSchedule ==
    /\ [](\A c \in Launches :
             [round |-> round + duration(round), id |-> c.id,
              destination |-> c.destination]
                \in {[round |-> q, id |-> c.r.w.rocket_landings[q][n][1],
                      destination |-> c.r.w.rocket_landings[q][n][2]] :
                        q \in {round + duration(round)} \cap DOMAIN c.r.w.rocket_landings,
                        n \in 1..Len(c.r.w.rocket_landings[round + duration(round)])})
    /\ [](\A s \in Scheduled :
             s.round > round =>
                /\ s.id \in DOMAIN units
                /\ units[s.id].location = InSpace)
    /\ [](last.op = "next_turn" =>
             \A n \in 1..Len(last.landed) : last.landed[n].found # "skipped")
    /\ [][\A id \in DOMAIN units :
             (units[id].location = InSpace
                /\ (id \notin DOMAIN units' \/ units'[id].location # InSpace)) =>
                   /\ last'.op = "next_turn"
                   /\ round' = round + 1
                   /\ \E s \in Scheduled : s.id = id /\ s.round = round']_vars

\* No unit of the world is on this square.
unoccupied(w, location) ==
    \A id \in DOMAIN w.units : w.units[id].location # OnMap(location)

\* C12: a rocket that lands on a square no unit is on is placed there, its
\* location the destination and the index entry of the destination the
\* rocket; and whatever the destination held, each unit on one of the eight
\* squares next to it loses ROCKET_BLAST_DAMAGE of health, or is destroyed.
C12_LandsAndBlasts ==
    \A c \in RocketLandings :
        LET before == c.before.w
            after == land_rocket(before, c.id, c.destination).w
        IN  /\ unoccupied(before, c.destination) =>
                  /\ has_unit(after, c.id)
                  /\ after.units[c.id].location = OnMap(c.destination)
                  /\ c.destination \in DOMAIN after.units_by_loc
                  /\ after.units_by_loc[c.destination] = c.id
            /\ \A id \in DOMAIN before.units \ {c.id} :
                  is_adjacent_to(before.units[id].location, OnMap(c.destination)) =>
                      \/ ~has_unit(after, id)
                      \/ after.units[id].health
                            <= before.units[id].health - ROCKET_BLAST_DAMAGE

-----------------------------------------------------------------------------
(* Boarding: one rocket in the middle of Earth and robots created beside   *)
(* it, as test_rocket_garrison does, to fill the rocket to its capacity.   *)

\* Robots created beside the rocket, both teams together.
MaxBoarders == 9

TheRocket == next_id("Red", 0)

TakeoffLoc == MapLocation("Earth", 1, 0)

\* Where the robots are created: east of the rocket, as in the test.
BoardingSquares == {add(TakeoffLoc, "East")}

\* The variables hold this world.
Holds(w) ==
    /\ round = w.round
    /\ player_to_move = w.player_to_move
    /\ visible_locs = w.visible_locs
    /\ units = w.units
    /\ unit_infos = w.unit_infos
    /\ units_by_loc = w.units_by_loc
    /\ rocket_landings = w.rocket_landings
    /\ karbonite = w.karbonite
    /\ team_states = w.team_states

InitBoarding ==
    /\ Holds(create_unit(new_world, "Red", TakeoffLoc, "Rocket").w)
    /\ last = Call("create_unit", TheRocket, "Ok", <<>>)
    /\ generated = not_generated
    /\ checked = not_checked

\* create_unit of a robot beside the rocket, on a square that is_occupiable.
CreateBoarder(team, location) ==
    /\ created <= MaxBoarders
    /\ is_occupiable(World, location).val
    /\ LET r == create_unit(World, team, location, "Worker")
       IN  Returned(World, r,
                    Call("create_unit", next_id(team, team_states[team].id_generator),
                         r.res, <<>>))

NextBoarding ==
    \/ \E team \in Teams, location \in BoardingSquares : CreateBoarder(team, location)
    \/ \E robot_id \in Ids : GarrisonRocket(TheRocket, robot_id)
    \/ \E direction \in DirectionsTried : DegarrisonRocket(TheRocket, direction)
    \/ NextTurn

SpecBoarding == InitBoarding /\ [][NextBoarding]_vars

\* The robot may board the rocket, but for the room in it: both on the map
\* and side by side, the robot of the rocket's team and ready to move, the
\* rocket never launched.
may_board(w, rocket_id, robot_id) ==
    /\ w.units[rocket_id].unit_type = "Rocket"
    /\ is_robot(w.units[robot_id].unit_type)
    /\ ~w.units[rocket_id].is_used
    /\ w.units[rocket_id].team = w.units[robot_id].team
    /\ unit_is_move_ready(w.units[robot_id]).val
    /\ is_adjacent_to(w.units[rocket_id].location, w.units[robot_id].location)

\* C13: no rocket ever holds more units than ROCKET_CAPACITY; a robot that
\* may board a rocket with room left boards it, at the end of its queue, and
\* one that may board a full rocket is refused with InvalidAction, the world
\* left as it was.
C13_GarrisonCapacity ==
    /\ \A id \in DOMAIN units : Len(units[id].garrison) <= ROCKET_CAPACITY
    /\ \A rocket_id \in DOMAIN units, robot_id \in DOMAIN units :
          may_board(World, rocket_id, robot_id) =>
              LET r == garrison_rocket(World, rocket_id, robot_id)
              IN  IF Len(units[rocket_id].garrison) < ROCKET_CAPACITY
                  THEN /\ r.res = "Ok"
                       /\ r.w.units[rocket_id].garrison
                             = Append(units[rocket_id].garrison, robot_id)
                       /\ r.w.units[robot_id].location = InRocket(rocket_id)
                  ELSE r.res = "InvalidAction" /\ r.w = World

\* The rocket is full and one more robot that may board stands beside it.
C13_Witness ==
    /\ Len(units[TheRocket].garrison) = ROCKET_CAPACITY
    /\ \E robot_id \in DOMAIN units : may_board(World, TheRocket, robot_id)

\* The rockets of the world.
Rockets == {id \in DOMAIN units : units[id].unit_type = "Rocket"}

\* C14: robots leave a rocket in the order they boarded.  A robot that
\* boards goes to the end of the rocket's queue and a degarrison takes the
\* head of the queue, puts it on the square asked for and leaves the rest of
\* the queue in its order; the robot can_degarrison_rocket asks for its
\* readiness to move is that head, the one degarrison_rocket removes.
C14_FirstInFirstOut ==
    /\ [](\A rocket_id \in Rockets, direction \in DirectionSet :
             LET can == can_degarrison_rocket(World, rocket_id, direction)
                 queue == units[rocket_id].garrison
                 r == degarrison_rocket(World, rocket_id, direction)
             IN  IF can.res = "Ok" /\ can.val
                 THEN /\ queue # <<>>
                      /\ unit_is_move_ready(units[queue[1]]).val
                      /\ r.res = "Ok"
                      /\ r.w.units[rocket_id].garrison = Tail(queue)
                      /\ r.w.units[queue[1]].location
                            = OnMap(add(units[rocket_id].location.loc, direction))
                      /\ \A i \in 2..Len(queue) :
                            r.w.units[queue[i]].location = InRocket(rocket_id)
                 ELSE r.w = World)
    /\ [][\A rocket_id \in Rockets :
             LET queue == units[rocket_id].garrison
                 after == units'[rocket_id].garrison
             IN  (rocket_id \in DOMAIN units' /\ after # queue) =>
                    \/ /\ last'.op = "garrison_rocket"
                       /\ after = Append(queue, last'.id)
                    \/ /\ last'.op = "degarrison_rocket"
                       /\ queue # <<>>
                       /\ after = Tail(queue)
                       /\ units'[Head(queue)].location.kind = "OnMap"]_vars

\* A degarrison has put a robot on the map that boarded before every robot
\* still in the rocket.
C14_Witness ==
    /\ last.op = "degarrison_rocket"
    /\ units[TheRocket].garrison # <<>>
    /\ \E id \in DOMAIN units :
          /\ is_robot(units[id].unit_type)
          /\ units[id].location.kind = "OnMap"
          /\ units[id].team = units[TheRocket].team
          /\ \A i \in 1..Len(units[TheRocket].garrison) :
                id < units[TheRocket].garrison[i]

-----------------------------------------------------------------------------
(* Moving: robots only, created, moved and taken through the turns, as     *)
(* test_unit_move does.                                                    *)

NextMoving ==
    \/ \E team \in Teams, location \in AllMapLocations :
          CreateUnit(team, location, "Worker")
    \/ \E id \in Ids, direction \in DirectionsTried : MoveRobot(id, direction)
    \/ NextTurn

SpecMoving == Init /\ [][NextMoving]_vars

\* The robots of a world that stand on a map.
RobotsOnMap(w) ==
    {id \in DOMAIN w.units :
        is_robot(w.units[id].unit_type) /\ w.units[id].location.kind = "OnMap"}

\* The robot cannot move, whatever the direction.
Grounded(w, id) ==
    \A direction \in DirectionSet :
        /\ can_move(w, id, direction) = [val |-> FALSE, res |-> "Ok"]
        /\ move_robot(w, id, direction).res = "InvalidAction"

-----------------------------------------------------------------------------
(* The round pipeline: research is queued in round 1, rockets are launched *)
(* in any round, and the game runs to round MaxPipelineRound, so that      *)
(* landings, asteroid strikes and research completions meet in one round  *)
(* advance.                                                                *)

MaxPipelineRound == 3
MaxQueue == 1
BranchesTried == {"Rocket"}

QueueResearch(branch) ==
    /\ round = new_world.round
    /\ Len(team_states[player_to_move.team].research.queue) < MaxQueue
    /\ LET r == queue_research(World, branch)
       IN  Returned(World, r, Call("queue_research", NoId, r.res, <<>>))

EndTurn ==
    /\ player_to_move = BlueMars => round < MaxPipelineRound
    /\ LET r == next_turn(World)
       IN  Returned(World, r,
                    Call("next_turn", NoId, r.res,
                         IF player_to_move = BlueMars
                         THEN landing_log(World) ELSE <<>>))

\* The rockets are set up before the first turn ends, as the tests do.
world_is_new == round = new_world.round /\ player_to_move = new_world.player_to_move

PipelineDestinations ==
    {MapLocation("Earth", 0, 0), MapLocation("Mars", 1, 0), MapLocation("Mars", 2, 0)}

NextRounds ==
    \/ \E location \in AllMapLocations :
            world_is_new /\ CreateUnit("Red", location, "Rocket")
    \/ \E rocket_id \in Ids, destination \in PipelineDestinations :
            LaunchRocket(rocket_id, destination)
    \/ \E branch \in BranchesTried : QueueResearch(branch)
    \/ EndTurn

SpecRounds == Init /\ [][NextRounds]_vars

\* The steps of a round advance, each applied to the world the step before
\* it left, up to the first step that fails.
ticked(w) == [id \in DOMAIN w.units |-> unit_next_round(w.units[id])]

pipeline(w) ==
    LET incremented == [w EXCEPT !.round = w.round + 1]
        cooled == [incremented EXCEPT !.units = ticked(incremented)]
        landed == land_rockets(cooled, landings_of(cooled, w.round + 1), 1)
        struck == process_asteroids(landed.w)
        red == process_research(struck, "Red")
        blue == process_research(red.w, "Blue")
    IN  IF landed.res # "Ok" THEN landed
        ELSE IF red.res # "Ok" THEN red
        ELSE blue

\* C16: every round advance runs its steps in the order: increment the
\* round, tick every unit's cooldowns, resolve the landings scheduled for the
\* new round, apply the new round's asteroid strike, advance the research of
\* each team.  A landing of round n is resolved against the round number n,
\* before the strike of round n and before the research completions of round n.
C16_RoundPipeline ==
    LET r == next_round(World)
        p == pipeline(World)
    IN  /\ r.res = p.res
        /\ r.w = p.w
        /\ r.w.round = round + 1
        /\ r.res = "Ok" =>
              /\ \A location \in MapLocations("Mars") :
                     r.w.karbonite["Mars"][location] =
                        karbonite["Mars"][location]
                        + (IF asteroid(round + 1) # <<>>
                              /\ asteroid(round + 1)[1].location = location
                           THEN asteroid(round + 1)[1].karbonite ELSE 0)

\* A round advance in which a rocket landed, the asteroid struck and the
\* research of a team advanced by one round.
C16_Witness ==
    /\ last.op = "next_turn" /\ last.res = "Ok"
    /\ Len(last.landed) > 0
    /\ asteroid(round) # <<>>
    /\ karbonite["Mars"][asteroid(round)[1].location] > 0
    /\ \E team \in Teams :
          /\ team_states[team].research.queue # <<>>
          /\ team_states[team].research.rounds_left = RESEARCH_ROUNDS - 1

-----------------------------------------------------------------------------
(* The round limit: a world set up with robots, and turns ended up to and  *)
(* past the last round.                                                    *)

\* The last round of a game (constants.rs), scaled down.
ROUND_LIMIT == 6

LastTurns ==
    /\ player_to_move = BlueMars => round <= ROUND_LIMIT
    /\ LET r == next_turn(World)
       IN  Returned(World, r,
                    Call("next_turn", NoId, r.res,
                         IF player_to_move = BlueMars
                         THEN landing_log(World) ELSE <<>>))

NextLimit ==
    \/ \E team \in Teams, location \in AllMapLocations :
            world_is_new /\ CreateUnit(team, location, "Worker")
    \/ LastTurns

SpecLimit == Init /\ [][NextLimit]_vars

\* C17: the round starts at 1 and never exceeds ROUND_LIMIT: the turn ended
\* by Blue on Mars in round ROUND_LIMIT fails with an internal engine error
\* and leaves the round at ROUND_LIMIT.
C17_RoundLimit ==
    /\ round \in 1..ROUND_LIMIT
    /\ player_to_move = BlueMars /\ round = ROUND_LIMIT =>
          /\ next_turn(World).res = "InternalEngineError"
          /\ next_turn(World).w.round <= ROUND_LIMIT

\* The planet a rocket on a map flies to.
other_planet(planet) == IF planet = "Earth" THEN "Mars" ELSE "Earth"

\* C18: launch_rocket succeeds only for a rocket that was never used and a
\* destination that is on the map of the other planet and passable; for a
\* rocket on a map every other launch is refused with InvalidAction, so that
\* no rocket is launched twice.
C18_LaunchDestination ==
    \A rocket_id \in Rockets, destination \in Destinations :
        LET rocket == units[rocket_id]
            r == launch_rocket(World, rocket_id, destination)
            map == starting_map(other_planet(rocket.location.loc.planet))
            allowed == /\ ~rocket.is_used
                       /\ destination.planet = map.planet
                       /\ on_map(map, destination)
                       /\ destination \notin map.impassable
        IN  rocket.location.kind = "OnMap" =>
               /\ r.res = "Ok" => allowed
               /\ ~allowed => r.res = "InvalidAction" /\ r.w = World

-----------------------------------------------------------------------------
(* Determinism.  The units are kept in a hash map, and the loops over it   *)
(* visit them in an order the program does not choose; the landings of a   *)
(* round are kept in a vector, in the order of the launches.               *)

\* The orders in which a loop can visit a set of keys.
Orders(keys) ==
    {order \in [1..Cardinality(keys) -> keys] :
        \A i, j \in 1..Cardinality(keys) : order[i] = order[j] => i = j}

\* The loop of next_round over units.values_mut(), from the i-th unit visited.
RECURSIVE tick_in_order(_, _, _)
tick_in_order(us, order, i) ==
    IF i > Len(order) THEN us
    ELSE tick_in_order([us EXCEPT ![order[i]] = unit_next_round(@)], order, i + 1)

\* The loop of process_research over units.iter_mut().
RECURSIVE upgrade_in_order(_, _, _, _)
upgrade_in_order(us, branch, order, i) ==
    IF i > Len(order) THEN us
    ELSE upgrade_in_order(
            IF us[order[i]].unit_type = branch
            THEN [us EXCEPT ![order[i]] = unit_research(@)] ELSE us,
            branch, order, i + 1)

process_research_in_order(w, team, order) ==
    LET next == research_next_round(w.team_states[team].research)
        w1 == [w EXCEPT !.team_states[team].research = next.research]
    IN  IF next.branch # <<>>
        THEN Ok([w1 EXCEPT !.units = upgrade_in_order(@, next.branch[1], order, 1)])
        ELSE Ok(w1)

\* next_round with its loops in given orders: ticks for the cooldown loop
\* and upgrades for the research loops; the landings go in vector order.
next_round_in_order(w, ticks, upgrades) ==
    LET incremented == [w EXCEPT !.round = @ + 1]
        cooled == [incremented EXCEPT !.units = tick_in_order(@, ticks, 1)]
        vector == IF cooled.round \in DOMAIN cooled.rocket_landings
                  THEN cooled.rocket_landings[cooled.round] ELSE <<>>
    IN  Then(land_rockets(cooled, vector, 1),
             LAMBDA v : LET alive == SelectSeq(upgrades,
                                              LAMBDA id : id \in DOMAIN v.units)
                        IN  Then(process_research_in_order(process_asteroids(v), "Red", alive),
                                 LAMBDA u : process_research_in_order(u, "Blue", alive)))

-----------------------------------------------------------------------------
(* The asteroid pattern (map.rs): the random generator, one action for     *)
(* each turn of its loop, and validate() on the pattern it returns.        *)

\* The limits of a pattern (constants.rs), scaled down to ROUND_LIMIT.
ASTEROID_ROUND_MIN == 1
ASTEROID_ROUND_MAX == 3
ASTEROID_KARB_MIN == 20
ASTEROID_KARB_MAX == 22

\* The values of a Range::new(low, high): low included, high excluded.
sample_range(low, high) == low..(high - 1)

AsteroidStrike(strike_karbonite, location) ==
    [karbonite |-> strike_karbonite, location |-> location]

\* A turn of the loop that inserts the strike before it looks at the limit.
random_step_unchecked(gen, gap, strike) ==
    LET reached == gen.round + gap
    IN  [gen EXCEPT !.round = reached,
                    !.pattern = insert(@, reached, strike),
                    !.done = reached >= ROUND_LIMIT]

\* AsteroidPattern::random, one turn of its loop: the round moves on by the
\* gap drawn; the loop ends at ROUND_LIMIT, and a strike is inserted before.
random_step(gen, gap, strike) ==
    LET reached == gen.round + gap
    IN  IF reached >= ROUND_LIMIT
        THEN [gen EXCEPT !.round = reached, !.done = TRUE]
        ELSE [gen EXCEPT !.round = reached,
                         !.pattern = insert(@, reached, strike)]

\* rounds.sort() of the keys of a pattern.
sorted(keys) ==
    CHOOSE seq \in [1..Cardinality(keys) -> keys] :
        \A i, j \in 1..Cardinality(keys) : i < j => seq[i] < seq[j]

\* AsteroidPattern::validate.  The pattern without a strike makes rounds[0]
\* an index out of bounds.
asteroid_validate(pattern) ==
    LET rounds == sorted(DOMAIN pattern)
        n == Len(rounds)
    IN  IF \E r \in DOMAIN pattern :
              \/ r < 1 \/ r > ROUND_LIMIT
              \/ pattern[r].karbonite < ASTEROID_KARB_MIN
              \/ pattern[r].karbonite > ASTEROID_KARB_MAX
              \/ pattern[r].location.planet # "Mars"
        THEN "InvalidMapObject"
        ELSE IF n = 0 THEN "Panic"
        ELSE IF rounds[1] - 1 > ASTEROID_ROUND_MAX THEN "InvalidMapObject"
        ELSE IF ROUND_LIMIT - rounds[n] > ASTEROID_ROUND_MAX THEN "InvalidMapObject"
        ELSE IF \E i \in 1..(n - 1) :
                   \/ rounds[i + 1] - rounds[i] < ASTEROID_ROUND_MIN
                   \/ rounds[i + 1] - rounds[i] > ASTEROID_ROUND_MAX
        THEN "InvalidMapObject"
        ELSE "Ok"

world_vars == <<round, player_to_move, visible_locs, units, unit_infos,
                units_by_loc, rocket_landings, karbonite, team_states>>

\* A turn of the loop of random, with the values its four samples return.
Sample(gap, strike_karbonite, x, y) ==
    /\ ~generated.done
    /\ generated' = random_step(generated, gap,
                        AsteroidStrike(strike_karbonite, MapLocation("Mars", x, y)))
    /\ UNCHANGED <<world_vars, last, checked>>

\* validate() on the pattern random has returned.
Validate ==
    /\ generated.done
    /\ generated.valid = "None"
    /\ generated' = [generated EXCEPT !.valid = asteroid_validate(generated.pattern)]
    /\ UNCHANGED <<world_vars, last, checked>>

NextAsteroids ==
    \/ \E gap \in sample_range(ASTEROID_ROUND_MIN, ASTEROID_ROUND_MAX),
          strike_karbonite \in sample_range(ASTEROID_KARB_MIN, ASTEROID_KARB_MAX),
          x \in sample_range(starting_map("Mars").origin.x,
                             starting_map("Mars").origin.x + starting_map("Mars").width),
          y \in sample_range(starting_map("Mars").origin.y,
                             starting_map("Mars").origin.y + starting_map("Mars").height) :
            Sample(gap, strike_karbonite, x, y)
    \/ Validate

SpecAsteroids == Init /\ [][NextAsteroids]_vars

\* Two strike rounds of a pattern with no strike between them.
consecutive(pattern, a, b) ==
    /\ a \in DOMAIN pattern /\ b \in DOMAIN pattern /\ a < b
    /\ ~\E c \in DOMAIN pattern : a < c /\ c < b

\* C20: whatever the samples, the pattern AsteroidPattern::random builds
\* passes validate(), and two consecutive strike rounds of it differ by an
\* amount from ASTEROID_ROUND_MIN to ASTEROID_ROUND_MAX.
C20_RandomPatternValid ==
    /\ generated.done => asteroid_validate(generated.pattern) = "Ok"
    /\ generated.valid \in {"None", "Ok"}
    /\ \A a, b \in DOMAIN generated.pattern :
          consecutive(generated.pattern, a, b) =>
             b - a \in ASTEROID_ROUND_MIN..ASTEROID_ROUND_MAX

\* A finished pattern of several strikes that validate() has accepted.
C20_Witness ==
    /\ generated.done
    /\ generated.valid = "Ok"
    /\ Cardinality(DOMAIN generated.pattern) >= 2

-----------------------------------------------------------------------------
(* validate() on patterns given as maps (AsteroidPattern::new), valid and  *)
(* invalid ones, as tests::validate_asteroid builds them.                  *)

MaxStrikes == 3

\* Strikes at and beyond each limit of karbonite, on Mars and on Earth.
StrikesTried ==
    {AsteroidStrike(ASTEROID_KARB_MIN - 1, MapLocation("Mars", 0, 0)),
     AsteroidStrike(ASTEROID_KARB_MIN, MapLocation("Mars", 0, 0)),
     AsteroidStrike(ASTEROID_KARB_MAX, MapLocation("Mars", 0, 0)),
     AsteroidStrike(ASTEROID_KARB_MAX + 1, MapLocation("Mars", 0, 0)),
     AsteroidStrike(ASTEROID_KARB_MAX, MapLocation("Earth", 0, 0))}

\* The maps of at most MaxStrikes rounds, from round 0 to past the limit.
PatternsTried ==
    UNION {[keys -> StrikesTried] :
              keys \in {k \in SUBSET (0..(ROUND_LIMIT + 1)) :
                            Cardinality(k) <= MaxStrikes}}

InitPatterns ==
    /\ Holds(new_world)
    /\ last = Call("new", NoId, "Ok", <<>>)
    /\ \E pattern \in PatternsTried :
          generated = [not_generated EXCEPT !.pattern = pattern, !.done = TRUE]
    /\ checked = not_checked

SpecPatterns == InitPatterns /\ [][Validate]_vars

band == ASTEROID_ROUND_MIN..ASTEROID_ROUND_MAX

\* The patterns the invariant of an AsteroidPattern admits.
admitted(pattern) ==
    /\ pattern # <<>>
    /\ \A r \in DOMAIN pattern :
          /\ r \in 1..ROUND_LIMIT
          /\ pattern[r].karbonite \in ASTEROID_KARB_MIN..ASTEROID_KARB_MAX
          /\ pattern[r].location.planet = "Mars"
    /\ \A a, b \in DOMAIN pattern : consecutive(pattern, a, b) => b - a \in band
    /\ \A r \in DOMAIN pattern :
          /\ (\A q \in DOMAIN pattern : r <= q) => r - 1 \in band
          /\ (\A q \in DOMAIN pattern : q <= r) => ROUND_LIMIT - r \in band

\* C21: validate() returns Ok exactly for the admitted patterns: keys from
\* 1 to ROUND_LIMIT, karbonite within its limits, Mars locations, consecutive
\* keys, the first key minus 1 and ROUND_LIMIT minus the last key all within
\* the band of gaps; for every other pattern, the empty one included, it
\* returns InvalidMapObject.
C21_ValidateExact ==
    /\ asteroid_validate(generated.pattern) =
          IF admitted(generated.pattern) THEN "Ok" ELSE "InvalidMapObject"
    /\ generated.valid \in
          {"None", IF admitted(generated.pattern) THEN "Ok" ELSE "InvalidMapObject"}

-----------------------------------------------------------------------------
(* PlanetMap::validate (map.rs), on maps whose grids are vectors of rows.  *)

\* The limits of a map (constants.rs), scaled down; test_map has the least
\* height and the least width.
MAP_HEIGHT_MIN == 1
MAP_HEIGHT_MAX == 2
MAP_WIDTH_MIN == 3
MAP_WIDTH_MAX == 4
MAP_COORDINATE_MIN == -1
MAP_COORDINATE_MAX == 1
MAP_KARBONITE_MIN == 0
MAP_KARBONITE_MAX == 1
\* The most units a map of Earth starts with (the literal of validate).
INITIAL_UNITS_MAX == 6

\* `as usize` of an i32: a negative value wraps to the top of the range.  The
\* width is scaled to 16 bits; every wrapped value is beyond every grid.
USIZE_BITS == 16
as_usize(i) == i % (2 ^ USIZE_BITS)

\* The result of the first step of a loop that does not pass, or Ok.
first_failure(steps) ==
    IF \E k \in 1..Len(steps) : steps[k] # "Ok"
    THEN steps[CHOOSE k \in 1..Len(steps) :
                  /\ steps[k] # "Ok"
                  /\ \A j \in 1..(k - 1) : steps[j] = "Ok"]
    ELSE "Ok"

\* The loop over initial_karbonite[y][x], row by row: a row that is too
\* short is indexed out of bounds.
karbonite_steps(map) ==
    [k \in 1..(map.height * map.width) |->
        LET y == (k - 1) \div map.width
            x == (k - 1) % map.width
            row == map.initial_karbonite[y + 1]
        IN  IF x + 1 > Len(row) THEN "Panic"
            ELSE IF map.planet = "Mars"
                 THEN IF row[x + 1] # 0 THEN "InvalidMapObject" ELSE "Ok"
                 ELSE IF row[x + 1] < MAP_KARBONITE_MIN \/ row[x + 1] > MAP_KARBONITE_MAX
                      THEN "InvalidMapObject" ELSE "Ok"]

\* The loop over initial_units: the planet of the unit, then the terrain of
\* its square, indexed without a check that the square is on the map.
unit_steps(map) ==
    [k \in 1..Len(map.initial_units) |->
        LET location == map.initial_units[k]
            x == as_usize(location.x - map.origin.x)
            y == as_usize(location.y - map.origin.y)
        IN  IF location.planet # map.planet THEN "InvalidMapObject"
            ELSE IF y + 1 > Len(map.is_passable_terrain) THEN "Panic"
            ELSE IF x + 1 > Len(map.is_passable_terrain[y + 1]) THEN "Panic"
            ELSE IF ~map.is_passable_terrain[y + 1][x + 1] THEN "InvalidMapObject"
            ELSE "Ok"]

\* PlanetMap::validate
planet_map_validate(map) ==
    IF ~(/\ map.height >= MAP_HEIGHT_MIN /\ map.height <= MAP_HEIGHT_MAX
         /\ map.width >= MAP_WIDTH_MIN /\ map.width <= MAP_WIDTH_MAX)
    THEN "InvalidMapObject"
    ELSE IF ~(/\ map.origin.x >= MAP_COORDINATE_MIN /\ map.origin.x <= MAP_COORDINATE_MAX
              /\ map.origin.y >= MAP_COORDINATE_MIN /\ map.origin.y <= MAP_COORDINATE_MAX
              /\ map.origin.planet = map.planet)
    THEN "InvalidMapObject"
    ELSE IF Len(map.is_passable_terrain) # map.height
            \/ Len(map.is_passable_terrain[1]) # map.width
    THEN "InvalidMapObject"
    ELSE IF Len(map.initial_karbonite) # map.height
            \/ Len(map.initial_karbonite[1]) # map.width
    THEN "InvalidMapObject"
    ELSE IF first_failure(karbonite_steps(map)) # "Ok"
    THEN first_failure(karbonite_steps(map))
    ELSE IF map.planet = "Mars" /\ Len(map.initial_units) # 0
    THEN "InvalidMapObject"
    ELSE IF map.planet = "Earth"
            /\ ~(/\ Len(map.initial_units) > 0
                 /\ Len(map.initial_units) % 2 = 0
                 /\ Len(map.initial_units) <= INITIAL_UNITS_MAX)
    THEN "InvalidMapObject"
    ELSE first_failure(unit_steps(map))

PlanetMap(planet, height, width, origin, terrain, deposits, initial_units) ==
    [planet |-> planet, height |-> height, width |-> width, origin |-> origin,
     is_passable_terrain |-> terrain, initial_karbonite |-> deposits,
     initial_units |-> initial_units]

\* Grids of one and two rows: of the least width, ragged, and with a square
\* that is impassable or holds too much karbonite.
TerrainsTried ==
    {<<>>,
     <<(<<TRUE, TRUE, TRUE>>)>>,
     <<(<<TRUE, FALSE, TRUE>>)>>,
     <<(<<TRUE, TRUE, TRUE>>), <<TRUE, TRUE, TRUE>> >>,
     <<(<<TRUE, TRUE, TRUE>>), <<TRUE, TRUE>> >>,
     <<(<<TRUE, TRUE, TRUE>>), <<TRUE, TRUE, TRUE, TRUE>> >>}

DepositsTried ==
    {<<>>,
     <<(<<0, 0, 0>>)>>,
     <<(<<0, MAP_KARBONITE_MAX, 0>>)>>,
     <<(<<0, 0, MAP_KARBONITE_MAX + 1>>)>>,
     <<(<<0, 0, 0>>), <<0, 0, 0>> >>,
     <<(<<0, 0, 0>>), <<0, 0>> >>,
     <<(<<0, 0, 0>>), <<0, 0, 0, 0>> >>}

\* The locations of the initial units: none, one, pairs on and off the map,
\* on the other planet, and more than the most a map starts with.
InitialUnitsTried ==
    {<<>>,
     <<MapLocation("Earth", 0, 0)>>,
     <<MapLocation("Earth", 0, 0), MapLocation("Earth", 2, 0)>>,
     <<MapLocation("Earth", 0, 0), MapLocation("Earth", 1, 0)>>,
     <<MapLocation("Earth", 0, 0), MapLocation("Mars", 2, 0)>>,
     <<MapLocation("Earth", 0, 0), MapLocation("Earth", 3, 0)>>,
     <<MapLocation("Earth", -1, 0), MapLocation("Earth", 0, 0)>>,
     <<MapLocation("Earth", 0, 1), MapLocation("Earth", 2, 1)>>,
     [k \in 1..(INITIAL_UNITS_MAX + 2) |-> MapLocation("Earth", 0, 0)]}

OriginsTried ==
    {MapLocation(planet, 0, 0) : planet \in Planets}
    \cup {MapLocation("Earth", MAP_COORDINATE_MIN - 1, 0),
          MapLocation("Earth", 0, MAP_COORDINATE_MAX + 1),
          MapLocation("Earth", MAP_COORDINATE_MAX, 0)}

MapsTried ==
    {PlanetMap(planet, height, width, origin, terrain, deposits, initial_units) :
        planet \in Planets,
        height \in (MAP_HEIGHT_MIN - 1)..(MAP_HEIGHT_MAX + 1),
        width \in {MAP_WIDTH_MIN - 1, MAP_WIDTH_MIN, MAP_WIDTH_MAX + 1},
        origin \in OriginsTried,
        terrain \in TerrainsTried,
        deposits \in DepositsTried,
        initial_units \in InitialUnitsTried}

InitMaps ==
    /\ Holds(new_world)
    /\ last = Call("new", NoId, "Ok", <<>>)
    /\ generated = not_generated
    /\ \E map \in MapsTried : checked = [not_checked EXCEPT !.input = map]

ValidateMap ==
    /\ checked.result = <<>>
    /\ checked' = [checked EXCEPT !.result = <<planet_map_validate(checked.input)>>]
    /\ UNCHANGED <<world_vars, last, generated>>

SpecMaps == InitMaps /\ [][ValidateMap]_vars

\* A grid that has not one row for each unit of height, or a row that has
\* not one square for each unit of width.
bad_grid(map, grid) ==
    \/ Len(grid) # map.height
    \/ \E y \in 1..Len(grid) : Len(grid[y]) # map.width

\* PlanetMap::on_map, for a map with an origin and two dimensions.
on_planet_map(map, location) ==
    /\ map.planet = location.planet
    /\ location.x >= map.origin.x
    /\ location.y >= map.origin.y
    /\ location.x < map.origin.x + map.width
    /\ location.y < map.origin.y + map.height

\* The structural rules of a map, one disjunct for each rule broken.
breaks_a_rule(map) ==
    \/ map.height \notin MAP_HEIGHT_MIN..MAP_HEIGHT_MAX
    \/ map.width \notin MAP_WIDTH_MIN..MAP_WIDTH_MAX
    \/ map.origin.x \notin MAP_COORDINATE_MIN..MAP_COORDINATE_MAX
    \/ map.origin.y \notin MAP_COORDINATE_MIN..MAP_COORDINATE_MAX
    \/ map.origin.planet # map.planet
    \/ bad_grid(map, map.is_passable_terrain)
    \/ bad_grid(map, map.initial_karbonite)
    \/ \E y \in 1..Len(map.initial_karbonite) :
          \E x \in 1..Len(map.initial_karbonite[y]) :
             IF map.planet = "Mars"
             THEN map.initial_karbonite[y][x] # 0
             ELSE map.initial_karbonite[y][x] \notin MAP_KARBONITE_MIN..MAP_KARBONITE_MAX
    \/ map.planet = "Mars" /\ Len(map.initial_units) # 0
    \/ map.planet = "Earth" /\ Len(map.initial_units) \notin {2, 4, INITIAL_UNITS_MAX}
    \/ \E k \in 1..Len(map.initial_units) :
          LET location == map.initial_units[k]
              y == location.y - map.origin.y + 1
              x == location.x - map.origin.x + 1
          IN  \/ location.planet # map.planet
              \/ ~on_planet_map(map, location)
              \/ /\ y \in 1..Len(map.is_passable_terrain)
                 /\ x \in 1..Len(map.is_passable_terrain[y])
                 /\ ~map.is_passable_terrain[y][x]

\* C22: PlanetMap::validate fails with InvalidMapObject whenever a
\* structural rule is broken: the dimensions or the origin out of bounds, the
\* origin on the wrong planet, a row of the terrain or of the karbonite grid
\* that does not match the width (or a row count that does not match the
\* height), karbonite on Mars or out of the band on Earth, a wrong number or
\* parity of initial units, an initial unit on the wrong planet, off the map
\* or on impassable terrain.
C22_MapRules ==
    /\ breaks_a_rule(checked.input) =>
          planet_map_validate(checked.input) = "InvalidMapObject"
    /\ checked.result # <<>> /\ breaks_a_rule(checked.input) =>
          checked.result = <<"InvalidMapObject">>

-----------------------------------------------------------------------------
(* OrbitPattern::get_duration (map.rs), for orbits and rounds at which the *)
(* sine is taken at a multiple of 45 degrees.                              *)

OrbitPattern(amplitude, period, center) ==
    [amplitude |-> amplitude, period |-> period, center |-> center]

\* The sine of 2 * PI / period * round, in thousandths.
sine(o, r) == SineOfEighth[(((8 * r) \div o.period) % 8) + 1]

\* A cast that rounds to the nearest integer, halves away from zero.
nearest(n, d) ==
    IF n >= 0 THEN (2 * n + d) \div (2 * d) ELSE -((2 * (-n) + d) \div (2 * d))

\* OrbitPattern::get_duration
get_duration(o, r) == truncate(o.amplitude * sine(o, r), 1000) + o.center

\* The orbit of tests::get_duration and orbits of period 8, and the rounds
\* of five periods that fall on an eighth of the period.
TestOrbit == OrbitPattern(150, 200, 250)
MaxPeriods == 5

OrbitsTried ==
    {TestOrbit}
    \cup {OrbitPattern(amplitude, 8, center) :
             amplitude \in {0, 1, 5, 150}, center \in {1, 250}}

RoundsTried(o) ==
    {r \in 0..(MaxPeriods * o.period) : (8 * r) % o.period = 0}

InitOrbits ==
    /\ Holds(new_world)
    /\ last = Call("new", NoId, "Ok", <<>>)
    /\ generated = not_generated
    /\ \E o \in OrbitsTried : \E r \in RoundsTried(o) :
          checked = [not_checked EXCEPT !.input = [orbit |-> o, round |-> r]]

GetDuration ==
    /\ checked.result = <<>>
    /\ checked' = [checked EXCEPT
                      !.result = <<get_duration(checked.input.orbit, checked.input.round)>>]
    /\ UNCHANGED <<world_vars, last, generated>>

SpecOrbits == InitOrbits /\ [][GetDuration]_vars

\* C23: get_duration is periodic and rounds to the nearest integer: the
\* duration of a round is the duration one period later and is the centre
\* plus amplitude * sine rounded to the nearest integer; for amplitude 150,
\* period 200 and centre 250 the durations at 0, 1/4, 1/2 and 3/4 of a period
\* are 250, 400, 250 and 100.
C23_DurationRounds ==
    LET o == checked.input.orbit
        r == checked.input.round
    IN  /\ get_duration(o, r) = get_duration(o, r + o.period)
        /\ get_duration(o, r) = nearest(o.amplitude * sine(o, r), 1000) + o.center
        /\ checked.result \in {<<>>, <<nearest(o.amplitude * sine(o, r), 1000) + o.center>>}
        /\ o = TestOrbit =>
              get_duration(o, r) =
                 CASE (4 * r) % o.period # 0 -> get_duration(o, r)
                   [] ((4 * r) \div o.period) % 4 = 0 -> 250
                   [] ((4 * r) \div o.period) % 4 = 1 -> 400
                   [] ((4 * r) \div o.period) % 4 = 2 -> 250
                   [] ((4 * r) \div o.period) % 4 = 3 -> 100

-----------------------------------------------------------------------------
(* The filtered world.                                                     *)

\* The rockets the landings of a world name.
landing_rockets(w) ==
    UNION {{w.rocket_landings[r][n][1] : n \in 1..Len(w.rocket_landings[r])} :
           r \in DOMAIN w.rocket_landings}

\* C24: the world filter() returns for the player to move holds no private
\* state of the other team: every unit in its unit map is of the team to
\* move, every landing it keeps names a rocket of that team, and the team
\* state of that team is the only one it keeps.
C24_FilterPrivate ==
    LET f == filter(World)
        team == player_to_move.team
    IN  f.res = "Ok" =>
           /\ \A id \in DOMAIN f.w.units : f.w.units[id].team = team
           /\ \A id \in landing_rockets(f.w) : units[id].team = team
           /\ DOMAIN f.w.team_states = {team}

\* filter() returns a world while the other team has a unit on the planet
\* of the player to move and a rocket with a landing scheduled.
C24_Witness ==
    LET opponent == other(player_to_move.team)
    IN  /\ filter(World).res = "Ok"
        /\ \E id \in DOMAIN units :
              /\ units[id].team = opponent
              /\ on_planet(units[id].location, player_to_move.planet)
        /\ \E id \in landing_rockets(World) : units[id].team = opponent
        /\ DOMAIN filter(World).w.units # {}

\* The units garrisoned in the rockets and factories of a team.
cargo_of(w, team) ==
    UNION {Range(w.units[id].garrison) :
           id \in {i \in DOMAIN w.units :
                      /\ w.units[i].team = team
                      /\ w.units[i].unit_type \in {"Rocket", "Factory"}}}

\* C25: filter() keeps, as full units, every unit garrisoned in a rocket or
\* factory of the team to move, wherever the carrier is: on the planet of the
\* player to move, on the other planet or in space; none of these units is in
\* the location index of the filtered world.
C25_FilterKeepsCargo ==
    LET f == filter(World)
    IN  f.res = "Ok" =>
           \A id \in cargo_of(World, player_to_move.team) :
              /\ id \in DOMAIN f.w.units
              /\ f.w.units[id] = units[id]
              /\ \A loc \in DOMAIN f.w.units_by_loc : f.w.units_by_loc[loc] # id

-----------------------------------------------------------------------------
(* The public unit infos, and apply.                                       *)

\* C26: in every world the program reaches, every unit of the unit map has
\* an entry of the same ID in the map of unit infos, made when the unit is
\* created and removed when it is destroyed.
C26_UnitInfos ==
    /\ \A id \in DOMAIN units : id \in DOMAIN unit_infos
    /\ \A id \in DOMAIN unit_infos : id \in DOMAIN units

\* A delta of each kind of action, with the arguments of its method.
Delta(kind, id, direction, robot_id, destination) ==
    [kind |-> kind, id |-> id, direction |-> direction,
     robot_id |-> robot_id, destination |-> destination]

NoLocation == MapLocation("Earth", 0, 0)

DeltasTried ==
    {Delta("EndTurn", NoId, "North", NoId, NoLocation)}
    \cup {Delta(kind, id, direction, NoId, NoLocation) :
             kind \in {"Move", "Degarrison"}, id \in Ids, direction \in DirectionsTried}
    \cup {Delta("Garrison", id, "North", robot_id, NoLocation) :
             id \in Ids, robot_id \in Ids}
    \cup {Delta("LaunchRocket", id, "North", NoId, destination) :
             id \in Ids, destination \in Destinations}

\* The method of the world an action kind stands for.
method_of(w, delta) ==
    CASE delta.kind = "EndTurn" -> next_turn(w)
      [] delta.kind = "Move" -> move_robot(w, delta.id, delta.direction)
      [] delta.kind = "Garrison" -> garrison_rocket(w, delta.id, delta.robot_id)
      [] delta.kind = "Degarrison" -> degarrison_rocket(w, delta.id, delta.direction)
      [] delta.kind = "LaunchRocket" -> launch_rocket(w, delta.id, delta.destination)

\* C27: apply(delta) has the result and the effect of the method of the
\* world for the kind of the delta: EndTurn of next_turn, Move of move_robot,
\* and every other kind (garrison, degarrison, launch, ...) of its own
\* method; no kind is answered Ok with the world left as it was.
C27_ApplyIsMethod ==
    \A delta \in DeltasTried : apply(World, delta) = method_of(World, delta)

-----------------------------------------------------------------------------
(* The turns that do not end a round.                                      *)

\* C28: an EndTurn of Red on Earth, Blue on Earth or Red on Mars changes
\* player_to_move and nothing else: the round, the units and their
\* cooldowns, the location index, the landings, the karbonite and the research
\* stay as they are; only the EndTurn of Blue on Mars runs the round advance.
C28_OnlyLastTurnAdvances ==
    /\ [](player_to_move # BlueMars =>
             /\ next_turn(World).res = "Ok"
             /\ next_turn(World).w =
                   [World EXCEPT !.player_to_move = next_player(player_to_move)])
    /\ [](player_to_move = BlueMars => next_turn(World).w.round = round + 1)
    /\ [][player_to_move' # player_to_move =>
             /\ player_to_move' = next_player(player_to_move)
             /\ player_to_move # BlueMars =>
                   UNCHANGED <<round, visible_locs, units, unit_infos, units_by_loc,
                               rocket_landings, karbonite, team_states>>]_vars
    /\ [][round' # round => player_to_move = BlueMars /\ round' = round + 1]_vars

\* Red on Mars has ended a turn after round 1 while a rocket is in space
\* and research is queued.
C28_Witness ==
    /\ last.op = "next_turn"
    /\ player_to_move = BlueMars
    /\ round > 1
    /\ \E id \in DOMAIN units : units[id].location = InSpace
    /\ \E team \in Teams : team_states[team].research.queue # <<>>

-----------------------------------------------------------------------------
(* Carriers and their cargo.                                               *)

\* C29: cargo never outlives its carrier: after a step that destroys a rocket
\* or a factory, by damage or by a landing collision, neither the carrier nor
\* any unit that was in its garrison is in the unit map or in the location
\* index.
C29_CargoGoesWithCarrier ==
    [][\A id \in DOMAIN units :
          (units[id].unit_type \in {"Rocket", "Factory"} /\ id \notin DOMAIN units') =>
             \A gone \in {id} \cup Range(units[id].garrison) :
                /\ gone \notin DOMAIN units'
                /\ \A loc \in DOMAIN units_by_loc' : units_by_loc'[loc] # gone]_vars

-----------------------------------------------------------------------------
(* Fresh IDs.                                                              *)

\* The IDs the generator of the team has given so far.
issued(team) == {next_id(team, n) : n \in 0..(team_states[team].id_generator - 1)}

\* C30: create_unit takes a fresh ID from the generator of the team: over any
\* sequence of creations and destructions by both teams no ID is given twice,
\* by one team or by the two, and the new unit is in the unit map and at its
\* location in the location index.
C30_FreshIds ==
    /\ [](\A id \in DOMAIN units : units[id].id = id /\ id \in issued(units[id].team))
    /\ [](issued("Red") \cap issued("Blue") = {})
    /\ [][\A team \in Teams :
             LET id == next_id(team, team_states[team].id_generator)
             IN  /\ team_states'[team].id_generator >= team_states[team].id_generator
                 /\ team_states'[team].id_generator # team_states[team].id_generator =>
                       /\ team_states'[team].id_generator = team_states[team].id_generator + 1
                       /\ id \notin issued("Red") \cup issued("Blue")
                       /\ id \notin DOMAIN units
                       /\ id \in DOMAIN units'
                       /\ units'[id].team = team
                       /\ units'[id].location.kind = "OnMap"
                       /\ units'[id].location.loc \in DOMAIN units_by_loc'
                       /\ units_by_loc'[units'[id].location.loc] = id]_vars

\* A unit has been created after another was destroyed, and both teams have
\* created units.
C30_Witness ==
    /\ last.op = "create_unit"
    /\ last.id \in DOMAIN units
    /\ Cardinality(DOMAIN units) < created
    /\ issued("Red") # {}
    /\ issued("Blue") # {}

-----------------------------------------------------------------------------
(* Boarding that is refused.                                               *)

\* C31: garrison_rocket fails and leaves the world as it was, the robot on
\* the map and the queue of the rocket included, whenever the robot and the
\* rocket are of different teams, the robot is not adjacent to the rocket,
\* the robot is not ready to move, the boarding unit is a factory or a rocket,
\* or the rocket has been launched.
C31_GarrisonRefused ==
    \A rocket_id \in Rockets, robot_id \in DOMAIN units :
        LET rocket == units[rocket_id]
            robot == units[robot_id]
            r == garrison_rocket(World, rocket_id, robot_id)
        IN  (\/ rocket.team # robot.team
             \/ ~is_adjacent_to(rocket.location, robot.location)
             \/ ~unit_is_move_ready(robot).val
             \/ robot.unit_type \in {"Factory", "Rocket"}
             \/ rocket.is_used) =>
                /\ r.res # "Ok"
                /\ r.w = World

\* A rocket that has flown and landed stands beside a robot of its team that
\* is ready to move, and beside no other reason to refuse it.
C31_Witness ==
    \E rocket_id \in Rockets, robot_id \in DOMAIN units :
        /\ units[rocket_id].is_used
        /\ units[rocket_id].location.kind = "OnMap"
        /\ units[rocket_id].team = units[robot_id].team
        /\ is_robot(units[robot_id].unit_type)
        /\ unit_is_move_ready(units[robot_id]).val
        /\ is_adjacent_to(units[rocket_id].location, units[robot_id].location)

-----------------------------------------------------------------------------
(* Leaving a rocket.                                                       *)

\* A unit of the world stands on the location.
stands_on(w, location) ==
    \E id \in DOMAIN w.units : w.units[id].location = OnMap(location)

\* C32: degarrison_rocket of a rocket on a map succeeds exactly when the
\* queue of the rocket is not empty, the square in the direction is passable
\* and no unit stands on it, and the robot at the head of the queue is ready
\* to move; a failed degarrison leaves the world, the queue included, as it
\* was; a robot that boards is not ready to move, and stays so inside the
\* rocket while the round is the same.
C32_DegarrisonExact ==
    /\ [](\A rocket_id \in Rockets, direction \in DirectionSet :
             units[rocket_id].location.kind = "OnMap" =>
                LET queue == units[rocket_id].garrison
                    target == add(units[rocket_id].location.loc, direction)
                    passable == is_passable_terrain_at(starting_map(target.planet), target)
                    r == degarrison_rocket(World, rocket_id, direction)
                IN  /\ r.res = "Ok" <=>
                          /\ queue # <<>>
                          /\ passable.res = "Ok" /\ passable.val
                          /\ ~stands_on(World, target)
                          /\ has_unit(World, queue[1])
                          /\ unit_is_move_ready(units[queue[1]]).val
                    /\ r.res # "Ok" => r.w = World)
    /\ [][\A id \in DOMAIN units' :
             /\ (units'[id].location.kind = "InRocket" /\ id \in DOMAIN units
                    /\ units[id].location.kind = "OnMap") =>
                   ~unit_is_move_ready(units'[id]).val
             /\ (units'[id].location.kind = "InRocket" /\ id \in DOMAIN units
                    /\ round' = round) =>
                   units'[id].movement_heat >= units[id].movement_heat]_vars

-----------------------------------------------------------------------------
(* Asteroid strikes on the karbonite grid of Mars.  The grid is a sequence *)
(* of rows, indexed relative to the origin of the map.                     *)

\* GameWorld::process_asteroids on the grid of the struck planet: the cell
\* karbonite[location.y as usize][location.x as usize] takes the karbonite
\* of the strike, and an index outside the grid panics.
process_asteroids_on(grid, strike) ==
    LET y == as_usize(strike.location.y) + 1
        x == as_usize(strike.location.x) + 1
    IN  IF y > Len(grid) THEN [res |-> "Panic", karbonite |-> grid]
        ELSE IF x > Len(grid[y]) THEN [res |-> "Panic", karbonite |-> grid]
        ELSE [res |-> "Ok",
              karbonite |-> [grid EXCEPT ![y][x] = @ + strike.karbonite]]

\* The live karbonite a cell of Mars may hold before the strike.
DepositsOnMars == {0, ASTEROID_KARB_MIN}

\* A planet map of Mars with a valid origin, its live karbonite, and a strike
\* inside the bounding box of the map, as AsteroidPattern::random draws it.
InitStrikes ==
    /\ Holds(new_world)
    /\ last = Call("new", NoId, "Ok", <<>>)
    /\ generated = not_generated
    /\ \E height \in MAP_HEIGHT_MIN..MAP_HEIGHT_MAX,
          ox \in MAP_COORDINATE_MIN..MAP_COORDINATE_MAX,
          oy \in MAP_COORDINATE_MIN..MAP_COORDINATE_MAX :
          \E grid \in [1..height -> [1..MAP_WIDTH_MIN -> DepositsOnMars]],
             x \in ox..(ox + MAP_WIDTH_MIN - 1),
             y \in oy..(oy + height - 1),
             k \in ASTEROID_KARB_MIN..ASTEROID_KARB_MAX :
             checked = [not_checked EXCEPT
                          !.input = [origin |-> MapLocation("Mars", ox, oy),
                                     karbonite |-> grid,
                                     strike |-> AsteroidStrike(k, MapLocation("Mars", x, y))]]

ProcessAsteroids ==
    /\ checked.result = <<>>
    /\ checked' = [checked EXCEPT
                      !.result = <<process_asteroids_on(checked.input.karbonite,
                                                        checked.input.strike)>>]
    /\ UNCHANGED <<world_vars, last, generated>>

SpecStrikes == InitStrikes /\ [][ProcessAsteroids]_vars

\* C33: a strike adds its karbonite to the live karbonite of the struck
\* square of Mars, the square of the strike's absolute location whatever the
\* valid origin of the map, and changes the karbonite of no other square; a
\* round with no strike changes no karbonite.
C33_StrikeAdds ==
    LET origin == checked.input.origin
        grid == checked.input.karbonite
        strike == checked.input.strike
        struck == [grid EXCEPT ![strike.location.y - origin.y + 1]
                                [strike.location.x - origin.x + 1] = @ + strike.karbonite]
    IN  /\ process_asteroids_on(grid, strike) = [res |-> "Ok", karbonite |-> struck]
        /\ checked.result \in {<<>>, <<[res |-> "Ok", karbonite |-> struck]>>}
        /\ asteroid(round) = <<>> => process_asteroids(World) = World

-----------------------------------------------------------------------------
(* Research that completes.                                                *)

\* C34: when a research branch completes in a round advance, every unit
\* alive after it of the completed type has gained one research level, no more
\* and no less, in that round advance, and the units of the types of which no
\* branch completed keep their level.
C34_CompletionUpgrades ==
    [][round' = round + 1 =>
          \A id \in DOMAIN units' \cap DOMAIN units :
              LET branch == units[id].unit_type
                  completes == \E team \in Teams :
                                  team_states'[team].research.level[branch]
                                     # team_states[team].research.level[branch]
              IN  units'[id].level =
                     units[id].level + (IF completes THEN 1 ELSE 0)]_vars

-----------------------------------------------------------------------------
(* OrbitPattern::validate.  The fields are i32; the width is scaled to     *)
(* I32_BITS.  An overflowing sum panics in a build with overflow checks    *)
(* and wraps in a build without them.                                      *)

ORBIT_FLIGHT_MIN == 100
ORBIT_FLIGHT_MAX == 400

I32_BITS == 16
I32_MAX == (2 ^ (I32_BITS - 1)) - 1

wrap_i32(v) == ((v + 2 ^ (I32_BITS - 1)) % (2 ^ I32_BITS)) - 2 ^ (I32_BITS - 1)

Builds == {"checked", "wrapping"}

orbit_validate(o, build) ==
    LET low == o.center - o.amplitude
        high == o.center + o.amplitude
    IN  IF build = "checked" /\ wrap_i32(low) # low THEN "Panic"
        ELSE IF wrap_i32(low) < ORBIT_FLIGHT_MIN THEN "InvalidMapObject"
        ELSE IF build = "checked" /\ wrap_i32(high) # high THEN "Panic"
        ELSE IF wrap_i32(high) > ORBIT_FLIGHT_MAX THEN "InvalidMapObject"
        ELSE "Ok"

\* The orbits of tests::validate_orbit, their neighbours, and the orbits at
\* the ends of the range of the fields.
OrbitsValidated ==
    {OrbitPattern(amplitude, TestOrbit.period, center) :
        amplitude \in {0, 1, I32_MAX} \cup (TestOrbit.amplitude - 2)..(TestOrbit.amplitude + 2),
        center \in {200, 300, ORBIT_FLIGHT_MIN, ORBIT_FLIGHT_MAX, I32_MAX, -I32_MAX}
                      \cup (TestOrbit.center - 2)..(TestOrbit.center + 2)}

InitOrbitsValidated ==
    /\ Holds(new_world)
    /\ last = Call("new", NoId, "Ok", <<>>)
    /\ generated = not_generated
    /\ \E o \in OrbitsValidated : checked = [not_checked EXCEPT !.input = o]

ValidateOrbit ==
    /\ checked.result = <<>>
    /\ \E build \in Builds :
          checked' = [checked EXCEPT !.result = <<orbit_validate(checked.input, build)>>]
    /\ UNCHANGED <<world_vars, last, generated>>

SpecOrbitsValidated == InitOrbitsValidated /\ [][ValidateOrbit]_vars

\* C35: OrbitPattern::validate returns Ok exactly when center - amplitude is
\* at least ORBIT_FLIGHT_MIN and center + amplitude at most ORBIT_FLIGHT_MAX,
\* and InvalidMapObject otherwise: amplitude 150 is refused with center 200
\* or 300 and accepted with center 250.
C35_OrbitValidateExact ==
    LET o == checked.input
        expected == IF /\ o.center - o.amplitude >= ORBIT_FLIGHT_MIN
                       /\ o.center + o.amplitude <= ORBIT_FLIGHT_MAX
                    THEN "Ok" ELSE "InvalidMapObject"
    IN  /\ \A build \in Builds : orbit_validate(o, build) = expected
        /\ checked.result \in {<<>>, <<expected>>}

-----------------------------------------------------------------------------
(* The landing schedule.                                                   *)

\* C36: every rocket the landing schedule names is a unit of the unit map,
\* so that filter and process_rockets never look up a missing rocket.
C36_LandingsNameUnits ==
    \A r \in DOMAIN rocket_landings :
        \A i \in 1..Len(rocket_landings[r]) :
            has_unit(World, rocket_landings[r][i][1])

-----------------------------------------------------------------------------
(* Rockets in space.                                                       *)

\* The landings the schedule holds for the rocket, as rounds.
landing_rounds(id) ==
    {r \in DOMAIN rocket_landings :
        \E i \in 1..Len(rocket_landings[r]) : rocket_landings[r][i][1] = id}

\* C37: every unit in space is a used rocket with exactly one scheduled
\* landing, at a round after the current one; once the round advance of its
\* landing round has run the rocket is on a map or destroyed, never still in
\* space.
C37_InSpaceLandsLater ==
    \A id \in DOMAIN units :
        units[id].location = InSpace =>
            /\ units[id].unit_type = "Rocket"
            /\ units[id].is_used
            /\ Cardinality(landing_rounds(id)) = 1
            /\ \A r \in landing_rounds(id) :
                  /\ r > round
                  /\ Len(SelectSeq(rocket_landings[r],
                                   LAMBDA landing : landing[1] = id)) = 1

-----------------------------------------------------------------------------
(* Cargo: two rockets of Red with a square between them where robots are   *)
(* created, boarding, leaving, launches and the landings that follow.       *)

\* The units created in all, the two rockets included.
MaxCargo == 4

BetweenRockets == MapLocation("Earth", 1, 0)

InitCargo ==
    /\ Holds(create_unit(create_unit(new_world, "Red", add(BetweenRockets, "West"),
                                     "Rocket").w,
                         "Red", add(BetweenRockets, "East"), "Rocket").w)
    /\ last = Call("create_unit", next_id("Red", 1), "Ok", <<>>)
    /\ generated = not_generated
    /\ checked = not_checked

NextCargo ==
    \/ created < MaxCargo /\ CreateBoarder("Red", BetweenRockets)
    \/ \E rocket_id \in Ids, robot_id \in Ids : GarrisonRocket(rocket_id, robot_id)
    \/ \E id \in Ids, direction \in DirectionsTried : DegarrisonRocket(id, direction)
    \/ \E id \in Ids, destination \in PipelineDestinations : LaunchRocket(id, destination)
    \/ NextTurn

SpecCargo == InitCargo /\ [][NextCargo]_vars

\* C38: the garrisons and the locations of the units agree: a unit is inside
\* rocket r exactly when its ID is in the queue of r, once; r is then a unit
\* of the unit map; no unit is in two queues; and no unit inside a rocket has
\* an entry in the location index.
C38_GarrisonAgrees ==
    /\ \A id \in DOMAIN units :
          units[id].location.kind = "InRocket" =>
             /\ has_unit(World, units[id].location.rocket)
             /\ Len(SelectSeq(units[units[id].location.rocket].garrison,
                              LAMBDA g : g = id)) = 1
             /\ \A loc \in DOMAIN units_by_loc : units_by_loc[loc] # id
    /\ \A rocket_id \in DOMAIN units :
          \A i \in 1..Len(units[rocket_id].garrison) :
             /\ has_unit(World, units[rocket_id].garrison[i])
             /\ units[units[rocket_id].garrison[i]].location = InRocket(rocket_id)

\* Each of the two rockets holds a robot, and one of them has flown and
\* landed.
C38_Witness ==
    /\ \A rocket_id \in Rockets : units[rocket_id].garrison # <<>>
    /\ Cardinality(Rockets) = 2
    /\ \E rocket_id \in Rockets :
          units[rocket_id].is_used /\ units[rocket_id].location.kind = "OnMap"

-----------------------------------------------------------------------------
(* The filtered world and the moves of the player.                         *)

\* C39: the filtered world answers as the world does about the moves of the
\* player to move: for every unit the player controls and every direction
\* can_move and move_robot on filter(w) give the verdict they give on w, also
\* when a unit of the other team stands on the destination.
C39_FilterAgreesOnMoves ==
    LET f == filter(World)
    IN  f.res = "Ok" =>
           \A id \in own_units(World, player_to_move.team, player_to_move.planet),
              direction \in DirectionSet :
              /\ can_move(f.w, id, direction) = can_move(World, id, direction)
              /\ move_robot(f.w, id, direction).res = move_robot(World, id, direction).res

-----------------------------------------------------------------------------
(* Research is of a team.                                                  *)

\* C40: research is per team: in a round advance that succeeds the research
\* of each team advances by one increment, and a unit gains a level exactly
\* when the branch of its type completes for its own team; the completion of
\* a branch of the other team leaves its level as it was.
C40_ResearchPerTeam ==
    [][(round' = round + 1 /\ last'.res = "Ok") =>
          /\ \A team \in Teams :
                 team_states'[team].research =
                    research_next_round(team_states[team].research).research
          /\ \A id \in DOMAIN units' \cap DOMAIN units :
                 LET mine == team_states[units[id].team].research
                     branch == research_next_round(mine).branch
                 IN  units'[id].level =
                        units[id].level
                          + (IF branch = <<units[id].unit_type>> THEN 1 ELSE 0)]_vars

====
